---- MODULE Spec2Model ----
(***************************************************************************)
(* azure-blob-storage: DataContainer, DataBlockBlob and the blob store     *)
(* they talk to.                                                           *)
(*                                                                         *)
(* Execution model: node.js, one thread.  An async call runs without       *)
(* interruption from one store call to the next; a store call has two      *)
(* events, the store handling the request (Serve) and the caller resuming  *)
(* with the response (Resume).  Other calls may run between the two.       *)
(* An await that needs no store call (a cached validator, an async         *)
(* function that returns at once) resumes in the same turn of the event    *)
(* loop, before any response or timer, and is not a separate step.         *)
(***************************************************************************)
EXTENDS Integers, Sequences, FiniteSets, TLC

\* ------------------------------------------------------------- bounds
UpdateRetries == 2      \* options.updateRetries of the modelled containers
MaxExternalWrites == 2  \* writes by clients other than the modelled calls
MaxOps == 2             \* operations one caller starts, one after the other
MaxResults == 2         \* largest page size a caller asks a listing for

\* ------------------------------------------------------------- JSON values
undefined == <<>>
Some(x) == <<x>>

Num(n) == [n |-> n, type |-> "integer"]
Str == [type |-> "string"]          \* 'wrong value'
Absent == [type |-> "undefined"]    \* the property is not there

Fields == {"value", "newValue"}
Doc(v, w) == [value |-> v, newValue |-> w]

\* ------------------------------------------------------------- schemas
\* A schema object: its content, and `keys`, the order in which the object
\* got its keys.  JSON.stringify writes the keys in that order and
\* JSON.parse gives them back in the order read, so the text of a schema
\* stands for the content together with the order, and two texts are the
\* same string exactly when both are the same.
SchemaVersions == {1, 2}
schemav1 == [id |-> 1, properties |-> {"value"}, required |-> {"value"},
             keys |-> "declared"]
schemav2 == [id |-> 2, properties |-> {"value", "newValue"},
             required |-> {"value", "newValue"}, keys |-> "declared"]
\* a second schema declared for version 1: `value` is optional
schemav1b == [id |-> 1, properties |-> {"value"}, required |-> {},
              keys |-> "declared"]
\* schemav1 written with its keys in another order
schemav1r == [schemav1 EXCEPT !.keys = "reordered"]

\* ajv: type 'object', every property an integer, additionalProperties false.
\* The value undefined is not an object.
ajvValidate(schema, content) ==
  /\ content # Absent
  /\ \A f \in Fields :
       IF content[f] = Absent THEN f \notin schema.required
       ELSE f \in schema.properties /\ content[f].type = "integer"

_getSchemaName(schemaVersion) == ".schema.v" \o ToString(schemaVersion)

\* ------------------------------------------------------------- names
BlobName == "blob"
Names == {BlobName} \cup {_getSchemaName(v) : v \in SchemaVersions}
\* The names of a container that is listed, in the order the store lists
\* them (by name): the schema blobs, two documents, a log, a document
\* whose name has "schema" in it, and a page blob some other tool has put
\* there.
DocName == "doc"
LogName == "log"
SchemaDocName == "myschemas"
PageName == "page"
ListOrder ==
  <<_getSchemaName(1), _getSchemaName(2), BlobName, DocName, LogName,
    SchemaDocName, PageName>>
ListNames == {ListOrder[i] : i \in DOMAIN ListOrder}
Position(name) == CHOOSE i \in DOMAIN ListOrder : ListOrder[i] = name
HasPrefix(name, prefix) ==
  Len(prefix) <= Len(name) /\ SubSeq(name, 1, Len(prefix)) = prefix

\* /.schema.v*/i.test(name): any character, "schema", any character, and
\* then any number of "v", none included, anywhere in the name.  (The names
\* of the model are in lower case.)
TestSchemaName(name) ==
  \E i \in 1..Len(name) :
    /\ i + 7 <= Len(name)
    /\ SubSeq(name, i + 1, i + 6) = "schema"

Containers == {"c1", "c2", "c3"}
Handles == {"h1", "h2"}
Calls == {"A", "B"}

VARIABLES
  blobs,      \* the store: name -> blob, or NoBlob
  nextETag,   \* the store: the next version token it hands out
  history,    \* the store: version token -> the body it was issued for
  extWrites,  \* number of writes by other clients so far
  bucket,     \* the store: the Azure container exists
  container,  \* DataContainer objects
  blob,       \* DataBlockBlob objects
  call        \* the async calls in progress

vars == <<blobs, nextETag, history, extWrites, bucket, container, blob, call>>
store == <<blobs, nextETag, history, extWrites, bucket>>

NoBlob == [type |-> "none"]
Exists(name) == blobs[name] # NoBlob

\* ------------------------------------------------------------- requests
NoReq == [kind |-> "none"]
NoResp == [status |-> "none"]

getBlob(name, ifNoneMatch) ==
  [name |-> name, kind |-> "getBlob", ifNoneMatch |-> ifNoneMatch]
putBlob(name, ifMatch, content) ==
  [type |-> "BlockBlob", content |-> content, name |-> name,
   kind |-> "putBlob", ifNoneMatch |-> undefined, ifMatch |-> ifMatch]
\* putBlob with type 'AppendBlob' and no content
putAppendBlob(name) ==
  [putBlob(name, undefined, <<>>) EXCEPT !.type = "AppendBlob"]
appendBlock(name, content) ==
  [content |-> content, name |-> name, kind |-> "appendBlock"]
\* a write that must not replace anything: If-None-Match: *
putBlobIfNoneMatch(name, content) ==
  [putBlob(name, undefined, content) EXCEPT !.ifNoneMatch = Some("*")]
createContainer == [kind |-> "createContainer"]
listBlobs(prefix, marker, maxResults) ==
  [prefix |-> prefix, kind |-> "listBlobs",
   marker |-> marker, maxResults |-> maxResults]
getBlobProperties(name) == [name |-> name, kind |-> "getBlobProperties"]
deleteBlob(name, ifMatch) ==
  [name |-> name, kind |-> "deleteBlob", ifMatch |-> ifMatch]

\* ------------------------------------------------------------- the store
\* The blobs a listing has still to return: those after the marker whose
\* name starts with the prefix.
Remaining(prefix, marker) ==
  SelectSeq(ListOrder,
            LAMBDA n : /\ n \in DOMAIN blobs
                       /\ Exists(n)
                       /\ prefix = undefined \/ HasPrefix(n, prefix[1])
                       /\ marker = undefined
                            \/ Position(n) > Position(marker[1]))

\* One page of a listing: at most maxResults entries, and the marker to go
\* on from when there are more.
Page(prefix, marker, maxResults) ==
  LET all == Remaining(prefix, marker)
      n == IF maxResults = undefined \/ maxResults[1] > Len(all)
           THEN Len(all) ELSE maxResults[1]
  IN [blobs |-> [i \in 1..n |-> [type |-> blobs[all[i]].type, name |-> all[i]]],
      status |-> "ok",
      nextMarker |-> IF n < Len(all) THEN Some(all[n]) ELSE undefined]

\* The answer of the store to a request, in the store's present state.
Answer(req) ==
  CASE req.kind = "getBlob" ->
         IF ~Exists(req.name)
         THEN [status |-> "BlobNotFound"]
         ELSE IF req.ifNoneMatch = Some(blobs[req.name].eTag)
         THEN [status |-> "NotModified", read |-> blobs[req.name]]
         ELSE [content |-> blobs[req.name].content, status |-> "ok",
               eTag |-> blobs[req.name].eTag,
               read |-> blobs[req.name]]
    [] req.kind = "putBlob" ->
         IF req.ifMatch # undefined /\
            (~Exists(req.name) \/ req.ifMatch # Some(blobs[req.name].eTag))
         THEN [status |-> "ConditionNotMet"]
         ELSE IF req.ifNoneMatch # undefined /\ Exists(req.name)
         THEN [status |-> "BlobAlreadyExists"]
         ELSE [status |-> "ok", eTag |-> nextETag]
    [] req.kind = "createContainer" ->
         [status |-> IF bucket THEN "ContainerAlreadyExists" ELSE "ok"]
    [] req.kind = "appendBlock" ->
         IF ~Exists(req.name) THEN [status |-> "BlobNotFound"]
         ELSE IF blobs[req.name].type # "AppendBlob"
         THEN [status |-> "InvalidBlobType"]
         ELSE [status |-> "ok", eTag |-> nextETag]
    [] req.kind = "listBlobs" ->
         Page(req.prefix, req.marker, req.maxResults)
    [] req.kind = "getBlobProperties" ->
         IF ~Exists(req.name)
         THEN [status |-> "ErrorWithoutCode", statusCode |-> 404]
         ELSE [type |-> blobs[req.name].type, status |-> "ok",
               read |-> blobs[req.name]]
    [] req.kind = "deleteBlob" ->
         IF ~Exists(req.name) THEN [status |-> "BlobNotFound"]
         ELSE IF req.ifMatch # undefined
                 /\ req.ifMatch # Some(blobs[req.name].eTag)
         THEN [status |-> "ConditionNotMet", read |-> blobs[req.name]]
         ELSE [status |-> "ok", read |-> blobs[req.name]]

\* A block blob.  `created` is bookkeeping: the argument of the create call
\* that wrote it, undefined when something else wrote it.  An append blob
\* has the text appended so far as its content, and as `created` the
\* arguments of the append calls whose blocks it has taken.
BlockBlob(eTag, content, created) ==
  [type |-> "BlockBlob", content |-> content, eTag |-> eTag,
   created |-> created]

\* The store after the request.
Written(req, created) ==
  IF req.kind = "putBlob" /\ Answer(req).status = "ok"
  THEN [blobs EXCEPT ![req.name] =
          [BlockBlob(nextETag, req.content, created) EXCEPT
             !.type = req.type]]
  ELSE IF req.kind = "appendBlock" /\ Answer(req).status = "ok"
  THEN [blobs EXCEPT ![req.name].content = @ \o req.content,
                     ![req.name].created = @ \o created,
                     ![req.name].eTag = nextETag]
  ELSE IF req.kind = "deleteBlob" /\ Answer(req).status = "ok"
  THEN [blobs EXCEPT ![req.name] = NoBlob]
  ELSE blobs

\* ------------------------------------------------------------- objects
\* A DataContainer (part_002:44-87).  `inited` records that init() returned.
\* sas: options.credentials holds a shared access signature; readOnly: the
\* signature grants no write.
DataContainer(schema, schemaVersion, inited) ==
  [schema |-> schema, schemaVersion |-> schemaVersion,
   inited |-> inited, sas |-> FALSE,
   readOnly |-> FALSE,
   updateRetries |-> UpdateRetries, updateDelayFactor |-> 100,
   updateRandomizationFactor |-> 25,
   updateMaxDelay |-> 30 * 1000,
   _validateFunctionMap |-> [v \in SchemaVersions |-> undefined]]

\* A DataBlockBlob just constructed (customerrors.js:61-77, 144-147).
\* `removed` is bookkeeping: a remove() of this instance has deleted the
\* blob.
DataBlockBlob(c, cacheContent) ==
  [type |-> "BlockBlob", content |-> undefined, name |-> BlobName,
   container |-> c,
   eTag |-> undefined, cacheContent |-> cacheContent, version |-> undefined,
   removed |-> FALSE]

\* An AppendDataBlob just constructed (customerrors.js:297-301).
AppendDataBlob(c) ==
  [DataBlockBlob(c, FALSE) EXCEPT !.type = "AppendBlob"]

\* The locals of scanDataBlockBlob: marker, and nextMarker for
\* result.nextMarker; inflight: the handlers that have not settled.
\* listed, invoked, completed, rejected, pages: bookkeeping.
NoScan ==
  [prefix |-> undefined, marker |-> undefined, nextMarker |-> undefined,
   limit |-> undefined, inflight |-> {},
   listed |-> <<>>, invoked |-> <<>>, completed |-> {}, rejected |-> {},
   pages |-> 0]

\* new AppendDataBlob(options): super(options), and then
\* this.cacheContent = false.
AppendDataBlob_constructor(c, name, cacheContent) ==
  [DataBlockBlob(c, cacheContent) EXCEPT
     !.type = "AppendBlob", !.name = name, !.cacheContent = FALSE]

\* An async call.  attemptsLeft, modifiedContent: the locals of modify;
\* delay: the argument of its last sleep.
\* schemaVersion, pending, ctx: the validate call waiting for a schema blob.
\* cycles, puts, conflicts, thrown, read: bookkeeping for the properties.
\* options: the second argument the caller gave.  existed: the store held
\* a blob under the handle's name when the call started; before: that blob,
\* for a modify or append, and for container.load the blob getBlobProperties
\* found; thisBefore: the handle when a modify, remove or
\* load started; wasRemoved: its `removed` when the call started; again: when
\* the init call started, init had returned on a container object with the
\* same schema, version and credentials.
NoCall(left) ==
  [schemaVersion |-> 0, status |-> "none", req |-> NoReq, read |-> undefined,
   left |-> left, op |-> "none", h |-> "h1",
   pc |-> "idle", modifier |-> "none",
   arg |-> undefined, options |-> "none",
   ignoreChanges |-> FALSE, ignoreIfNotExists |-> FALSE, before |-> NoBlob,
   thisBefore |-> DataBlockBlob("c1", FALSE),
   wasRemoved |-> FALSE, existed |-> FALSE, again |-> FALSE,
   scan |-> NoScan, attemptsLeft |-> 0, modifiedContent |-> undefined,
   delay |-> 0, ctx |-> "none",
   pending |-> undefined, resp |-> NoResp, result |-> undefined,
   errorContent |-> undefined, cycles |-> 0, puts |-> 0, conflicts |-> 0,
   thrown |-> "none"]

\* The objects one step of call c works on.
Locals(c) ==
  [p |-> call[c], b |-> blob[call[c].h],
   k |-> container[blob[call[c].h].container]]

Issue(L, req, pc) ==
  [L EXCEPT !.p.req = req, !.p.resp = NoResp, !.p.pc = pc]

Return(L, result) ==
  [L EXCEPT !.p.pc = "done", !.p.status = "ok", !.p.result = result,
            !.p.req = NoReq, !.p.resp = NoResp]

Throw(L, code, errorContent) ==
  [L EXCEPT !.p.pc = "done", !.p.status = code,
            !.p.errorContent = errorContent,
            !.p.req = NoReq, !.p.resp = NoResp]

\* ------------------------------------------------------------- DataBlob
\* (variant: the content is kept whatever cacheContent says)
_cache_always(b, content) == [b EXCEPT !.content = Some(content)]

_cache(b, content) ==
  [b EXCEPT !.content = IF b.cacheContent THEN Some(content) ELSE undefined]

\* this.version ? this.version : this.container.schemaVersion
TargetVersion(b, k) ==
  IF b.version # undefined THEN b.version[1] ELSE k.schemaVersion

_serialize(b, k, json) == [content |-> json, version |-> TargetVersion(b, k)]

\* ------------------------------------------------------------- validate
\* validate() has the validator at hand, or compiles this.schema, without a
\* store call.
ValidatorAtHand(k, schemaVersion) ==
  k._validateFunctionMap[schemaVersion] # undefined
    \/ schemaVersion = k.schemaVersion

Compiled(k, schemaVersion) ==
  IF k._validateFunctionMap[schemaVersion] = undefined
  THEN [k EXCEPT !._validateFunctionMap[schemaVersion] = Some(k.schema)]
  ELSE k

validate(k, content, schemaVersion) ==
  ajvValidate(Compiled(k, schemaVersion)._validateFunctionMap[schemaVersion][1],
              content)

\* validate() must first load the schema of schemaVersion from the store.
FetchSchema(L, content, schemaVersion, ctx) ==
  Issue([L EXCEPT !.p.ctx = ctx, !.p.pending = Some(content),
                  !.p.schemaVersion = schemaVersion],
        getBlob(_getSchemaName(schemaVersion), undefined), "validate")

\* ------------------------------------------------------------- modifiers
\* The modifier functions of the tests, applied to a clone of the content.
\* "mutateThrow" adds 10 to data.value and then throws.
ModifierThrows(m) ==
  CASE m = "throw" -> "Error"
    [] m = "mutateThrow" -> "Error"
    [] m = "throwConflict" -> "ConditionNotMet"
    [] OTHER -> "none"
Modified(m, content) ==
  CASE m \in {"mutateThrow", "inc"} ->
         IF content.value.type = "integer"
         THEN [content EXCEPT !.value = Num(content.value.n + 10)]
         ELSE [content EXCEPT !.value = Str]
    [] m = "wrong" -> [content EXCEPT !.value = Str]
    [] m = "upgrade" -> Doc(Num(20), Num(40))
    [] OTHER -> content

\* ------------------------------------------------------------- modify
\* (variant: the budget is found exhausted one attempt late)
Exhausted_late(attemptsLeft) == attemptsLeft < 0

\* attemptsLeft === 0
Exhausted(attemptsLeft) == attemptsLeft = 0

Min(a, b) == IF a <= b THEN a ELSE b

\* Math.random(), in hundredths: the value for which the jitter is 1.
Random == 50

\* utils.computeDelay, the randomization factor in hundredths:
\* delay *= Math.random() * 2 * randomizationFactor + 1 - randomizationFactor
computeDelay(retry, delayFactor, randomizationFactor, maxDelay) ==
  LET jitter == (Random * 2 * randomizationFactor) \div 100
                  + 100 - randomizationFactor
      delay == ((2 ^ retry) * delayFactor * jitter) \div 100
  IN Min(delay, maxDelay)

\* The catch block of attemptModify.
modify_catch(L, code, errorContent) ==
  IF code # "ConditionNotMet"
  THEN Throw(L, code, errorContent)
  ELSE IF Exhausted(L.p.attemptsLeft - 1)
       THEN Throw([L EXCEPT !.p.attemptsLeft = @ - 1], "CongestionError",
                  undefined)
       ELSE [L EXCEPT !.p.attemptsLeft = @ - 1, !.p.pc = "sleep",
                      !.p.delay = computeDelay(L.p.attemptsLeft - 1,
                                               L.k.updateDelayFactor,
                                               L.k.updateRandomizationFactor,
                                               L.k.updateMaxDelay),
                      !.p.req = NoReq, !.p.resp = NoResp]

\* (variant: the write carries no condition)
IfMatch_none(b) == undefined

\* options.ifMatch = this.eTag
IfMatch(b) == b.eTag

\* Step 4 of attemptModify: the conditional write.
modify_put(L) ==
  Issue([L EXCEPT !.p.puts = @ + 1],
        putBlob(L.b.name, IfMatch(L.b),
                _serialize(L.b, L.k, L.p.modifiedContent[1])),
        "putBlob")

modify_validated(L, valid) ==
  IF valid THEN modify_put(L)
  ELSE modify_catch(
         [L EXCEPT !.p.thrown =
            IF @ = "none" THEN "SchemaValidationError" ELSE @],
         "SchemaValidationError", L.p.modifiedContent)

\* (variant: the modifier is handed the loaded object itself)
cloneDeep_none(content) == [value |-> content, shared |-> TRUE]

\* _.cloneDeep(content): the modifier is handed a copy; the loaded object,
\* which is the one the instance caches, is not the one it assigns to.
cloneDeep(content) == [value |-> content, shared |-> FALSE]

\* The instance after modifier(clonedContent) has run.
modifier_ran(b, m, clonedContent) ==
  IF clonedContent.shared /\ clonedContent.value # undefined
     /\ b.content # undefined
  THEN [b EXCEPT !.content = Some(Modified(m, clonedContent.value[1]))]
  ELSE b

\* Steps 2 and 3 of attemptModify, with the value load() returned.  A
\* modifier handed undefined fails on its first property access.
modify_loaded(L0, loaded) ==
  LET m == L0.p.modifier
      L == [L0 EXCEPT !.b = modifier_ran(L0.b, m, cloneDeep(loaded))]
      v == TargetVersion(L.b, L.k)
      threw == IF ModifierThrows(m) # "none" THEN ModifierThrows(m)
               ELSE IF loaded = undefined THEN "TypeError" ELSE "none"
  IN IF threw # "none"
     THEN modify_catch(
            [L EXCEPT !.p.thrown = IF @ = "none" THEN threw ELSE @],
            threw, undefined)
     ELSE LET x == Modified(m, loaded[1])
              M == [L EXCEPT !.p.modifiedContent = Some(x)]
          IN IF ValidatorAtHand(L.k, v)
             THEN modify_validated([M EXCEPT !.k = Compiled(L.k, v)],
                                   validate(L.k, x, v))
             ELSE FetchSchema(M, x, v, "modify")

\* ------------------------------------------------------------- load
\* load() returns: to attemptModify, to DataContainer.load, which returns
\* the instance, or to the caller.
load_return(L, loaded) ==
  IF L.p.op = "modify" THEN modify_loaded(L, loaded)
  ELSE IF L.p.op = "container.load" THEN Return(L, Some(L.b.type))
  ELSE Return(L, loaded)

load_throw(L, code, errorContent) ==
  IF L.p.op = "modify" THEN modify_catch(L, code, errorContent)
  ELSE Throw(L, code, errorContent)

load_validated(L, content, valid) ==
  IF valid
  THEN load_return([L EXCEPT !.b = _cache(L.b, content)], Some(content))
  ELSE load_throw(L, "SchemaValidationError", Some(content))

\* (variant: the content is validated against the current version)
LoadedVersion_current(envelope, k) == k.schemaVersion

\* this.version = deserializedContent.version
LoadedVersion(envelope, k) == envelope.version

\* (variant: the read carries no condition)
load_unconditional(L) == Issue(L, getBlob(L.b.name, undefined), "getBlob")

\* load() up to its getBlob.
load(L) ==
  Issue(L, getBlob(L.b.name,
                   IF L.b.cacheContent THEN L.b.eTag ELSE undefined),
        "getBlob")

\* load() resumed with the answer to getBlob.
load_resumed(L0) ==
  LET r == L0.p.resp
      L == [L0 EXCEPT !.p.read =
              IF r.status \in {"ok", "NotModified"} THEN Some(r.read)
              ELSE undefined]
  IN CASE r.status = "NotModified" -> load_return(L, L.b.content)
       [] r.status = "ok" ->
            LET content == r.content.content
                v == LoadedVersion(r.content, L.k)
                M == [L EXCEPT !.b.eTag = Some(r.eTag),
                               !.b.version = Some(v)]
            IN IF ValidatorAtHand(L.k, v)
               THEN load_validated([M EXCEPT !.k = Compiled(L.k, v)],
                                   content, validate(L.k, content, v))
               ELSE FetchSchema(M, content, v, "load")
       [] OTHER -> load_throw(L, r.status, undefined)

\* One load-modify-validate-write cycle of modify.
attemptModify(L) == load([L EXCEPT !.p.cycles = @ + 1])

\* (variant: the content stays cached as load left it)
modify_resumed_stale(L) ==
  LET r == L.p.resp IN
  IF r.status = "ok"
  THEN Return([L EXCEPT !.b.eTag = Some(r.eTag)], undefined)
  ELSE modify_catch([L EXCEPT !.p.conflicts =
                       IF r.status = "ConditionNotMet" THEN @ + 1 ELSE @],
                    r.status, undefined)

\* modify() resumed with the answer to putBlob.
modify_resumed(L) ==
  LET r == L.p.resp IN
  IF r.status = "ok"
  THEN Return([L EXCEPT !.b = _cache([L.b EXCEPT !.eTag = Some(r.eTag)],
                                     L.p.modifiedContent[1])],
              undefined)
  ELSE modify_catch([L EXCEPT !.p.conflicts =
                       IF r.status = "ConditionNotMet" THEN @ + 1 ELSE @],
                    r.status, undefined)

\* ------------------------------------------------------------- create
\* (variant: the write is refused when the name holds a blob)
_create_ifNoneMatch(L, content) ==
  Issue([L EXCEPT !.p.puts = @ + 1], putBlobIfNoneMatch(L.b.name, content),
        "putBlob")

\* DataBlob._create up to its putBlob: no condition is sent.
_create(L, content) ==
  Issue([L EXCEPT !.p.puts = @ + 1], putBlob(L.b.name, undefined, content),
        "putBlob")

\* (variant: the content is stored whatever the validator said)
create_validated_skip(L, content, valid) ==
  _create(L, _serialize(L.b, L.k, content))

create_validated(L, content, valid) ==
  IF valid THEN _create(L, _serialize(L.b, L.k, content))
  ELSE Throw(L, "SchemaValidationError", Some(content))

\* create() up to its first store call.
create(L, content) ==
  LET v == TargetVersion(L.b, L.k) IN
  IF ValidatorAtHand(L.k, v)
  THEN create_validated([L EXCEPT !.k = Compiled(L.k, v)], content,
                        validate(L.k, content, v))
  ELSE FetchSchema(L, content, v, "create")

\* (variant: step 3 of create is missing, the serialized content stays cached)
create_resumed_serialized(L) ==
  LET r == L.p.resp IN
  IF r.status = "ok"
  THEN Return([L EXCEPT !.b = _cache([L.b EXCEPT !.eTag = Some(r.eTag)],
                                     L.p.req.content)],
              undefined)
  ELSE Throw(L, r.status, undefined)

\* create() resumed with the answer to putBlob: _create caches the
\* serialized content, create then caches the raw one.
create_resumed(L) ==
  LET r == L.p.resp IN
  IF r.status = "ok"
  THEN Return([L EXCEPT !.b = _cache([L.b EXCEPT !.eTag = Some(r.eTag)],
                                     L.p.arg[1])],
              undefined)
  ELSE Throw(L, r.status, undefined)

\* ------------------------------------------------------------- append
\* (variant: a separator follows every fragment)
AppendDataBlob_serialize_separated(content) == <<content, "separator">>

\* AppendDataBlob._serialize: JSON.stringify(content).  The text of a log
\* is a sequence with one item for the text of each fragment.
AppendDataBlob_serialize(content) == <<content>>

\* (variant: the fragment is appended whatever the validator said)
append_validated_skip(L, content, valid) ==
  Issue([L EXCEPT !.p.puts = @ + 1],
        appendBlock(L.b.name, AppendDataBlob_serialize(content)),
        "appendBlock")

append_validated(L, content, valid) ==
  IF valid
  THEN Issue([L EXCEPT !.p.puts = @ + 1],
             appendBlock(L.b.name, AppendDataBlob_serialize(content)),
             "appendBlock")
  ELSE Throw(L, "SchemaValidationError", Some(content))

\* AppendDataBlob.append up to its first store call.
append(L, content) ==
  LET v == TargetVersion(L.b, L.k) IN
  IF ValidatorAtHand(L.k, v)
  THEN append_validated([L EXCEPT !.k = Compiled(L.k, v)], content,
                        validate(L.k, content, v))
  ELSE FetchSchema(L, content, v, "append")

\* AppendDataBlob.append resumed with the answer to appendBlock.
append_resumed(L) ==
  IF L.p.resp.status = "ok" THEN Return(L, undefined)
  ELSE Throw(L, L.p.resp.status, undefined)

\* AppendDataBlob.create: _create() without content, up to its putBlob.
AppendDataBlob_create(L) ==
  Issue([L EXCEPT !.p.puts = @ + 1], putAppendBlob(L.b.name),
        "putAppendBlob")

\* _create resumed: this.eTag = result.eTag, this._cache(undefined).
AppendDataBlob_create_resumed(L) ==
  LET r == L.p.resp IN
  IF r.status = "ok"
  THEN Return([L EXCEPT !.b.eTag = Some(r.eTag), !.b.content = undefined],
              undefined)
  ELSE Throw(L, r.status, undefined)

\* DataContainer.createAppendDataBlob(options, content) up to its first
\* store call: blob.create().
createAppendDataBlob(L) == AppendDataBlob_create(L)

\* createAppendDataBlob resumed with the answer to putBlob: if (content)
\* await blob.append(), called without an argument.
createAppendDataBlob_resumed(L) ==
  LET r == L.p.resp IN
  IF r.status # "ok" THEN Throw(L, r.status, undefined)
  ELSE LET M == [L EXCEPT !.b.eTag = Some(r.eTag), !.b.content = undefined]
       IN IF L.p.arg # undefined THEN append(M, Absent)
          ELSE Return(M, undefined)

\* AppendDataBlob.load up to its getBlob: no condition is sent.
AppendDataBlob_load(L) ==
  Issue(L, getBlob(L.b.name, undefined), "getAppendBlob")

\* AppendDataBlob.load resumed: the content is returned as the store sent
\* it.
AppendDataBlob_load_resumed(L0) ==
  LET r == L0.p.resp
      L == [L0 EXCEPT !.p.read =
              IF r.status = "ok" THEN Some(r.read) ELSE undefined]
  IN IF r.status = "ok"
     THEN Return([L EXCEPT !.b.eTag = Some(r.eTag)], Some(r.content))
     ELSE Throw(L, r.status, undefined)

\* ------------------------------------------------------------- remove
\* (variant: the delete never carries a condition)
remove_ifMatch_none(b, ignoreChanges) == undefined

\* if (!ignoreChanges) options.ifMatch = this.eTag
remove_ifMatch(b, ignoreChanges) ==
  IF ignoreChanges THEN undefined ELSE b.eTag

\* DataBlob.remove up to its deleteBlob.
remove(L) ==
  Issue(L, deleteBlob(L.b.name, remove_ifMatch(L.b, L.p.ignoreChanges)),
        "deleteBlob")

\* (variant: BlobNotFound is rethrown whatever the caller asked)
NotFoundIgnored_never(ignoreIfNotExists, code) == FALSE

\* ignoreIfNotExists && error && error.code === 'BlobNotFound'
NotFoundIgnored(ignoreIfNotExists, code) ==
  ignoreIfNotExists /\ code = "BlobNotFound"

\* DataBlob.remove resumed with the answer to deleteBlob; it returns no
\* value.
remove_resumed(L0) ==
  LET r == L0.p.resp
      L == [L0 EXCEPT !.p.read =
              IF r.status = "BlobNotFound" THEN undefined ELSE Some(r.read)]
  IN
  IF r.status = "ok"
  THEN Return([L EXCEPT !.b.removed = TRUE], undefined)
  ELSE IF NotFoundIgnored(L.p.ignoreIfNotExists, r.status)
  THEN Return(L, undefined)
  ELSE Throw(L, r.status, undefined)

\* DataContainer.remove(blob, ignoreIfNotExists) up to its deleteBlob.
container_remove(L) == Issue(L, deleteBlob(L.b.name, undefined), "deleteBlob")

\* DataContainer.remove resumed: true when the blob was deleted.
container_remove_resumed(L0) ==
  LET r == L0.p.resp
      L == [L0 EXCEPT !.p.read =
              IF r.status = "BlobNotFound" THEN undefined ELSE Some(r.read)]
  IN
  IF r.status = "ok" THEN Return(L, Some(TRUE))
  ELSE IF NotFoundIgnored(L.p.ignoreIfNotExists, r.status)
  THEN Return(L, Some(FALSE))
  ELSE Throw(L, r.status, undefined)

\* ------------------------------------------------------------- scan
\* (variant: the pages are not limited to options.limit)
scan_list_unlimited(L) ==
  Issue([L EXCEPT !.p.scan.pages = @ + 1],
        listBlobs(L.p.scan.prefix, L.p.scan.marker, undefined),
        "scanPage")

\* scanDataBlockBlob: the listBlobs call at the head of the loop.
scan_list(L) ==
  Issue([L EXCEPT !.p.scan.pages = @ + 1],
        listBlobs(L.p.scan.prefix, L.p.scan.marker, L.p.scan.limit),
        "scanPage")

\* scanDataBlockBlob(handler, options) up to its first store call.
scanDataBlockBlob(L, prefix, limit) ==
  scan_list([L EXCEPT !.p.scan.prefix = prefix, !.p.scan.limit = limit])

\* The entries of a page the handler is called for:
\* blob.type === 'BlockBlob' and !/.schema.v*/i.test(dataBlob.name)
Handled(entries) ==
  SelectSeq(entries,
            LAMBDA e : e.type = "BlockBlob" /\ ~TestSchemaName(e.name))

\* Promise.all has resolved: marker = result.nextMarker || undefined, and
\* the loop goes on while there is a marker.
scan_awaited(L) ==
  IF L.p.scan.nextMarker # undefined
  THEN scan_list([L EXCEPT !.p.scan.marker = L.p.scan.nextMarker])
  ELSE Return(L, undefined)

\* The scan resumed with a page: the handlers of the page are started, one
\* after the other, and the scan waits for all of them.
scan_listed(L) ==
  LET r == L.p.resp IN
  IF r.status # "ok" THEN Throw(L, r.status, undefined)
  ELSE LET started == Handled(r.blobs)
           names == [i \in DOMAIN started |-> started[i].name]
           M == [L EXCEPT !.p.scan.nextMarker = r.nextMarker,
                          !.p.scan.listed = @ \o r.blobs,
                          !.p.scan.invoked = @ \o names,
                          !.p.scan.inflight =
                             @ \cup {names[i] : i \in DOMAIN names}]
       IN IF started = <<>> THEN scan_awaited(M)
          ELSE [M EXCEPT !.p.pc = "handlers",
                         !.p.req = NoReq, !.p.resp = NoResp]

\* The handler called for `name` has resolved.
handler_resolved(L, name) ==
  LET M == [L EXCEPT !.p.scan.inflight = @ \ {name},
                     !.p.scan.completed = @ \cup {name}]
  IN IF M.p.pc = "handlers" /\ M.p.scan.inflight = {}
     THEN scan_awaited(M) ELSE M

\* (variant: the rejection of a handler is swallowed)
handler_rejected_swallowed(L, name) ==
  LET M == [L EXCEPT !.p.scan.inflight = @ \ {name},
                     !.p.scan.rejected = @ \cup {name}]
  IN IF M.p.pc = "handlers" /\ M.p.scan.inflight = {}
     THEN scan_awaited(M) ELSE M

\* The handler called for `name` has rejected: Promise.all rejects with
\* the first rejection, and the catch block rethrows it.
handler_rejected(L, name) ==
  LET M == [L EXCEPT !.p.scan.inflight = @ \ {name},
                     !.p.scan.rejected = @ \cup {name}]
  IN IF M.p.pc = "handlers" THEN Throw(M, "scan error", Some(name))
     ELSE M

\* ------------------------------------------------------------- container.load
\* DataContainer.load(blobName, cacheContent) up to its store call.
container_load(L, blobName) ==
  Issue(L, getBlobProperties(blobName), "getBlobProperties")

\* The catch block of DataContainer.load: a 404 without an error code is
\* given the code BlobNotFound.
container_load_code(resp) ==
  IF resp.status = "ErrorWithoutCode" /\ resp.statusCode = 404
  THEN "BlobNotFound" ELSE resp.status

\* DataContainer.load resumed with the properties: the instance for the
\* type of the blob, on which load() is awaited when it is a block blob;
\* null for any other type than the two.
container_load_resumed(L0) ==
  LET r == L0.p.resp
      blobName == L0.p.arg[1].name
      cacheContent == L0.p.arg[1].cacheContent
  IN IF r.status # "ok"
     THEN Throw(L0, container_load_code(r), undefined)
     ELSE LET L == [L0 EXCEPT !.p.before = r.read] IN
          CASE r.type = "BlockBlob" ->
                 load([L EXCEPT !.b = [DataBlockBlob(L.b.container,
                                                     cacheContent)
                                         EXCEPT !.name = blobName]])
            [] r.type = "AppendBlob" ->
                 Return([L EXCEPT !.b = AppendDataBlob_constructor(
                                          L.b.container, blobName,
                                          cacheContent)],
                        Some("AppendBlob"))
            [] OTHER -> Return(L, Some("null"))

\* ------------------------------------------------------------- listBlobs
\* DataContainer.listBlobs(options) up to its store call.
container_listBlobs(L, prefix, continuation, maxResults) ==
  Issue(L, listBlobs(prefix, continuation, maxResults), "listBlobs")

\* The callback of result.blobs.map: a DataBlockBlob, an AppendDataBlob, or
\* no return value, which leaves undefined in the array.
listBlobs_element(e) ==
  IF e.type = "BlockBlob" /\ ~TestSchemaName(e.name)
  THEN [type |-> "BlockBlob", name |-> e.name]
  ELSE IF e.type = "AppendBlob"
  THEN [type |-> "AppendBlob", name |-> e.name]
  ELSE Absent

\* listBlobs resumed with a page of the listing.
container_listBlobs_resumed(L) ==
  LET r == L.p.resp IN
  IF r.status # "ok" THEN Throw(L, r.status, undefined)
  ELSE Return([L EXCEPT !.p.scan.listed = r.blobs],
              Some([blobs |-> [i \in DOMAIN r.blobs |->
                                 listBlobs_element(r.blobs[i])],
                    continuationToken |-> r.nextMarker]))

\* ------------------------------------------------------------- validate
\* validate() resumed with the schema blob: compile, cache, validate, and
\* go on where _validateJSON was called.
validate_resumed(L) ==
  LET r == L.p.resp
      v == L.p.schemaVersion
      x == L.p.pending[1]
      code == IF r.status = "ok" THEN "none" ELSE r.status
      K == IF code = "none"
           THEN [L.k EXCEPT !._validateFunctionMap[v] = Some(r.content)]
           ELSE L.k
      valid == code = "none" /\ ajvValidate(r.content, x)
      M == [L EXCEPT !.k = K, !.p.pending = undefined, !.p.ctx = "none"]
  IN CASE L.p.ctx = "load" ->
            IF code = "none" THEN load_validated(M, x, valid)
            ELSE load_throw(M, code, undefined)
       [] L.p.ctx = "modify" ->
            IF code = "none" THEN modify_validated(M, valid)
            ELSE modify_catch(M, code, undefined)
       [] L.p.ctx = "create" ->
            IF code = "none" THEN create_validated(M, x, valid)
            ELSE Throw(M, code, undefined)
       [] L.p.ctx = "append" ->
            IF code = "none" THEN append_validated(M, x, valid)
            ELSE Throw(M, code, undefined)

\* ------------------------------------------------------------- init
\* _cacheSchema up to its getBlob.
_cacheSchema(L) ==
  Issue(L, getBlob(_getSchemaName(L.k.schemaVersion), undefined), "getSchema")

\* init() up to its first store call: ensureContainer, which returns at
\* once when the credentials are a shared access signature.
init(L) ==
  IF L.k.sas THEN _cacheSchema(L)
  ELSE Issue(L, createContainer, "createContainer")

\* (variant: ContainerAlreadyExists is rethrown)
ensureContainer_resumed_strict(L) ==
  IF L.p.resp.status = "ok" THEN _cacheSchema(L)
  ELSE Throw(L, L.p.resp.status, undefined)

\* ensureContainer resumed; then _cacheSchema.
ensureContainer_resumed(L) ==
  IF L.p.resp.status \in {"ok", "ContainerAlreadyExists"}
  THEN _cacheSchema(L)
  ELSE Throw(L, L.p.resp.status, undefined)

\* _saveSchema up to its putBlob: no condition is sent.
_saveSchema(L) ==
  Issue([L EXCEPT !.p.puts = @ + 1],
        putBlob(_getSchemaName(L.k.schemaVersion), undefined, L.k.schema),
        "putSchema")

\* storedSchema !== JSON.stringify(this.schema)
IntegrityCheckFails(storedSchema, schema) == storedSchema # schema

\* _cacheSchema resumed with the answer to getBlob.
_cacheSchema_resumed(L0) ==
  LET r == L0.p.resp
      L == [L0 EXCEPT !.p.read =
              IF r.status = "ok" THEN Some(r.read) ELSE undefined]
  IN
  CASE r.status = "BlobNotFound" -> _saveSchema(L)
    [] r.status = "ok" ->
         IF IntegrityCheckFails(r.content, L.k.schema)
         THEN Throw(L, "SchemaIntegrityCheckError", undefined)
         ELSE Return([L EXCEPT !.k.inited = TRUE], undefined)
    [] OTHER -> Throw(L, r.status, undefined)

\* (variant: every failure of the write is rethrown)
_saveSchema_resumed_strict(L) ==
  IF L.p.resp.status = "ok"
  THEN Return([L EXCEPT !.k.inited = TRUE], undefined)
  ELSE Throw(L, L.p.resp.status, undefined)

\* _saveSchema resumed with the answer to putBlob.
_saveSchema_resumed(L) ==
  IF L.p.resp.status \in {"ok", "AuthorizationPermissionMismatch"}
  THEN Return([L EXCEPT !.k.inited = TRUE], undefined)
  ELSE Throw(L, L.p.resp.status, undefined)

\* ------------------------------------------------------------- actions
\* The step of call c leaves the objects as in L.
Apply(c, L) ==
  /\ call' = [call EXCEPT ![c] = L.p]
  /\ blob' = [blob EXCEPT ![L.p.h] = L.b]
  /\ container' = [container EXCEPT ![L.b.container] = L.k]
  /\ UNCHANGED store

CanStart(c, h) ==
  /\ call[c].pc \in {"idle", "done"}
  /\ call[c].left > 0

\* The objects a call of `op` on handle h starts with.
Started(c, h, op) ==
  [p |-> [NoCall(call[c].left - 1) EXCEPT
            !.op = op, !.h = h,
            !.existed = Exists(blob[h].name),
            !.before = IF op \in {"modify", "append"}
                       THEN blobs[blob[h].name] ELSE @,
            !.thisBefore = IF op \in {"modify", "load", "remove"}
                          THEN blob[h] ELSE @,
            !.wasRemoved = blob[h].removed,
            !.again =
               /\ op = "init"
               /\ \E k \in Containers :
                    /\ container[k].inited
                    /\ container[k].schema =
                         container[blob[h].container].schema
                    /\ container[k].schemaVersion =
                         container[blob[h].container].schemaVersion
                    /\ container[k].readOnly =
                         container[blob[h].container].readOnly],
   b |-> blob[h], k |-> container[blob[h].container]]

StartInit(c, h) ==
  /\ CanStart(c, h)
  /\ Apply(c, init(Started(c, h, "init")))

StartCreate(c, h, content) ==
  /\ CanStart(c, h)
  /\ container[blob[h].container].inited
  /\ Apply(c, create([Started(c, h, "create") EXCEPT !.p.arg = Some(content)],
                     content))

\* create(content, {ifNoneMatch: '*'}): create declares one parameter, the
\* second argument is not read.
StartCreateIfNoneMatch(c, h, content) ==
  /\ CanStart(c, h)
  /\ container[blob[h].container].inited
  /\ Apply(c, create([Started(c, h, "create") EXCEPT
                        !.p.arg = Some(content),
                        !.p.options = "ifNoneMatch"],
                     content))

StartLoad(c, h) ==
  /\ CanStart(c, h)
  /\ container[blob[h].container].inited
  /\ Apply(c, load(Started(c, h, "load")))

StartModify(c, h, m) ==
  /\ CanStart(c, h)
  /\ container[blob[h].container].inited
  /\ Apply(c, attemptModify(
                [Started(c, h, "modify") EXCEPT
                   !.p.modifier = m,
                   !.p.attemptsLeft = container[blob[h].container].updateRetries]))

StartAppendCreate(c, h) ==
  /\ CanStart(c, h)
  /\ blob[h].type = "AppendBlob"
  /\ Apply(c, AppendDataBlob_create(Started(c, h, "append.create")))

StartAppend(c, h, content) ==
  /\ CanStart(c, h)
  /\ blob[h].type = "AppendBlob"
  /\ Apply(c, append([Started(c, h, "append") EXCEPT !.p.arg = Some(content)],
                     content))

\* container.createAppendDataBlob({name}, content): h becomes the instance
\* the call constructs.  content is undefined when no content is given.
StartCreateAppendDataBlob(c, h, content) ==
  /\ CanStart(c, h)
  /\ blob[h].type = "AppendBlob"
  /\ Apply(c, createAppendDataBlob(
                [Started(c, h, "createAppendDataBlob") EXCEPT
                   !.p.arg = content,
                   !.b = AppendDataBlob(blob[h].container)]))

StartAppendLoad(c, h) ==
  /\ CanStart(c, h)
  /\ blob[h].type = "AppendBlob"
  /\ Apply(c, AppendDataBlob_load(Started(c, h, "append.load")))

\* blob.remove(ignoreChanges, ignoreIfNotExists)
StartRemove(c, h, ignoreChanges, ignoreIfNotExists) ==
  /\ CanStart(c, h)
  /\ Apply(c, remove([Started(c, h, "remove") EXCEPT
                        !.p.ignoreChanges = ignoreChanges,
                        !.p.ignoreIfNotExists = ignoreIfNotExists]))

\* container.remove(name, ignoreIfNotExists), the container and the name
\* being those of handle h
StartContainerRemove(c, h, ignoreIfNotExists) ==
  /\ CanStart(c, h)
  /\ Apply(c, container_remove(
                [Started(c, h, "container.remove") EXCEPT
                   !.p.ignoreIfNotExists = ignoreIfNotExists]))

\* container.scanDataBlockBlob(handler, {prefix, limit}), the container
\* being that of handle h
StartScan(c, h, prefix, limit) ==
  /\ CanStart(c, h)
  /\ container[blob[h].container].inited
  /\ Apply(c, scanDataBlockBlob(Started(c, h, "scan"), prefix, limit))

\* container.listBlobs({prefix, continuation, maxResults}), the container
\* being that of handle h
StartListBlobs(c, h, prefix, continuation, maxResults) ==
  /\ CanStart(c, h)
  /\ container[blob[h].container].inited
  /\ Apply(c, container_listBlobs(Started(c, h, "listBlobs"),
                                  prefix, continuation, maxResults))

\* The store refuses the request: it is a write, and the caller's
\* signature grants none.
Refused(c) ==
  /\ call[c].req.kind \in
       {"putBlob", "appendBlock", "createContainer", "deleteBlob"}
  /\ container[blob[call[c].h].container].readOnly

\* container.load(blobName, cacheContent), the container being that of
\* handle h; h becomes the instance the call returns
StartContainerLoad(c, h, blobName, cacheContent) ==
  /\ CanStart(c, h)
  /\ container[blob[h].container].inited
  /\ Apply(c, container_load(
                [Started(c, h, "container.load") EXCEPT
                   !.p.arg = Some([name |-> blobName,
                                   cacheContent |-> cacheContent])],
                blobName))

\* The store handles the request of call c.
Serve(c) ==
  LET req == call[c].req
      r == IF Refused(c) THEN [status |-> "AuthorizationPermissionMismatch"]
           ELSE Answer(req)
      wrote == req.kind \in {"putBlob", "appendBlock"} /\ r.status = "ok"
      after == IF Refused(c) THEN blobs
               ELSE Written(req, IF call[c].op \in {"create", "append"}
                                    \/ (call[c].op = "createAppendDataBlob"
                                          /\ req.kind = "appendBlock")
                                 THEN call[c].arg ELSE undefined)
  IN /\ req # NoReq
     /\ call[c].resp = NoResp
     /\ call' = [call EXCEPT ![c].resp = r]
     /\ blobs' = after
     /\ nextETag' = IF wrote THEN nextETag + 1 ELSE nextETag
     /\ history' = IF wrote THEN Append(history, after[req.name].content)
                   ELSE history
     /\ bucket' = (bucket \/ (req.kind = "createContainer" /\ ~Refused(c)))
     /\ UNCHANGED <<extWrites, container, blob>>

Answered(c, pc) == call[c].pc = pc /\ call[c].resp # NoResp

LoadResume(c) ==
  /\ Answered(c, "getBlob")
  /\ Apply(c, load_resumed(Locals(c)))

ValidateResume(c) ==
  /\ Answered(c, "validate")
  /\ Apply(c, validate_resumed(Locals(c)))

PutResume(c) ==
  /\ Answered(c, "putBlob")
  /\ Apply(c, IF call[c].op = "modify" THEN modify_resumed(Locals(c))
              ELSE create_resumed(Locals(c)))

AppendResume(c) ==
  /\ Answered(c, "appendBlock")
  /\ Apply(c, append_resumed(Locals(c)))

AppendCreateResume(c) ==
  /\ Answered(c, "putAppendBlob")
  /\ Apply(c, IF call[c].op = "createAppendDataBlob"
              THEN createAppendDataBlob_resumed(Locals(c))
              ELSE AppendDataBlob_create_resumed(Locals(c)))

AppendLoadResume(c) ==
  /\ Answered(c, "getAppendBlob")
  /\ Apply(c, AppendDataBlob_load_resumed(Locals(c)))

DeleteResume(c) ==
  /\ Answered(c, "deleteBlob")
  /\ Apply(c, IF call[c].op = "remove" THEN remove_resumed(Locals(c))
              ELSE container_remove_resumed(Locals(c)))

ScanResume(c) ==
  /\ Answered(c, "scanPage")
  /\ Apply(c, scan_listed(Locals(c)))

PropertiesResume(c) ==
  /\ Answered(c, "getBlobProperties")
  /\ Apply(c, container_load_resumed(Locals(c)))

ListResume(c) ==
  /\ Answered(c, "listBlobs")
  /\ Apply(c, container_listBlobs_resumed(Locals(c)))

\* A handler of the tests, `blob.modify(content => content.value += 10)`,
\* has come to its end for `name`: the document holds the new value.
HandlerResolve(c, name) ==
  /\ name \in call[c].scan.inflight
  /\ Exists(name)
  /\ call' = [call EXCEPT ![c] = handler_resolved(Locals(c), name).p]
  /\ blobs' = [blobs EXCEPT
                 ![name].content.content =
                    Modified("inc", blobs[name].content.content),
                 ![name].eTag = nextETag,
                 ![name].created = undefined]
  /\ nextETag' = nextETag + 1
  /\ history' = Append(history, blobs'[name].content)
  /\ UNCHANGED <<extWrites, bucket, container, blob>>

\* A handler has rejected for `name`, having changed nothing.
HandlerReject(c, name) ==
  /\ name \in call[c].scan.inflight
  /\ Apply(c, handler_rejected(Locals(c), name))

\* The sleep before the next attempt is over.
Wake(c) ==
  /\ call[c].pc = "sleep"
  /\ Apply(c, attemptModify(Locals(c)))

EnsureResume(c) ==
  /\ Answered(c, "createContainer")
  /\ Apply(c, ensureContainer_resumed(Locals(c)))

CacheSchemaResume(c) ==
  /\ Answered(c, "getSchema")
  /\ Apply(c, _cacheSchema_resumed(Locals(c)))

SaveSchemaResume(c) ==
  /\ Answered(c, "putSchema")
  /\ Apply(c, _saveSchema_resumed(Locals(c)))

\* Another client of the store rewrites the document: same body, new token.
ExternalWrite ==
  /\ extWrites < MaxExternalWrites
  /\ Exists(BlobName)
  /\ blobs' = [blobs EXCEPT ![BlobName].eTag = nextETag,
                            ![BlobName].created = undefined]
  /\ nextETag' = nextETag + 1
  /\ history' = Append(history, blobs[BlobName].content)
  /\ extWrites' = extWrites + 1
  /\ UNCHANGED <<bucket, container, blob, call>>

\* ------------------------------------------------------------- modify, raced
\* The state the test 'modify concurrent' starts from: init(), then
\* createDataBlockBlob({cacheContent: true}, {value: 24}); h2 is a second
\* handle on the same name, just constructed, with or without cache.
StoredSchema(schema, eTag) == BlockBlob(eTag, schema, undefined)
Envelope(content, version) == [content |-> content, version |-> version]

InitModify ==
  LET doc == Envelope(Doc(Num(24), Absent), 1) IN
  /\ blobs = [n \in Names |->
               CASE n = _getSchemaName(1) -> StoredSchema(schemav1, 1)
                 [] n = BlobName -> BlockBlob(2, doc, Some(doc.content))
                 [] OTHER -> NoBlob]
  /\ nextETag = 3
  /\ history = <<schemav1, doc>>
  /\ extWrites = 0
  /\ bucket = TRUE
  /\ container = [k \in Containers |->
                   CASE k = "c1" ->
                          Compiled(DataContainer(schemav1, 1, TRUE), 1)
                     [] k = "c2" -> DataContainer(schemav2, 2, FALSE)
                     [] OTHER -> DataContainer(schemav1b, 1, FALSE)]
  /\ \E cache \in BOOLEAN :
       blob = [h \in Handles |->
                IF h = "h1"
                THEN [DataBlockBlob("c1", TRUE) EXCEPT
                        !.eTag = Some(2), !.content = Some(doc.content)]
                ELSE DataBlockBlob("c1", cache)]
  /\ call = [c \in Calls |-> NoCall(1)]

ModifiersModify == {"throw", "mutateThrow", "throwConflict", "inc", "wrong"}

NextModify ==
  \/ \E c \in Calls, h \in Handles, m \in ModifiersModify : StartModify(c, h, m)
  \/ \E c \in Calls : Serve(c)
  \/ \E c \in Calls : LoadResume(c)
  \/ \E c \in Calls : PutResume(c)
  \/ \E c \in Calls : Wake(c)
  \/ ExternalWrite

SpecModify == InitModify /\ [][NextModify]_vars

\* ------------------------------------------------------------- two versions
\* The state the schema-version tests start from: containerv1.init() and
\* containerv2.init() on one Azure container, no document yet.  h1 is a
\* handle of the version 1 container, h2 of the version 2 container.
InitVersions ==
  /\ blobs = [n \in Names |->
               CASE n = _getSchemaName(1) -> StoredSchema(schemav1, 1)
                 [] n = _getSchemaName(2) -> StoredSchema(schemav2, 2)
                 [] OTHER -> NoBlob]
  /\ nextETag = 3
  /\ history = <<schemav1, schemav2>>
  /\ extWrites = 0
  /\ bucket = TRUE
  /\ container = [k \in Containers |->
                   CASE k = "c1" -> DataContainer(schemav1, 1, TRUE)
                     [] k = "c2" -> DataContainer(schemav2, 2, TRUE)
                     [] OTHER -> DataContainer(schemav1b, 1, FALSE)]
  /\ \E cache \in [Handles -> BOOLEAN] :
       blob = [h \in Handles |->
                DataBlockBlob(IF h = "h1" THEN "c1" ELSE "c2", cache[h])]
  /\ call = [c \in Calls |-> NoCall(MaxOps)]

OwnHandle(c) == IF c = "A" THEN "h1" ELSE "h2"
Contents == {Doc(Str, Absent), Doc(Num(10), Absent), Doc(Num(20), Num(40))}
ModifiersVersions == {"inc", "wrong", "upgrade"}

NextVersions ==
  \/ \E c \in Calls, x \in Contents : StartCreate(c, OwnHandle(c), x)
  \/ \E c \in Calls : StartLoad(c, OwnHandle(c))
  \/ \E c \in Calls, m \in ModifiersVersions : StartModify(c, OwnHandle(c), m)
  \/ \E c \in Calls : Serve(c)
  \/ \E c \in Calls : LoadResume(c)
  \/ \E c \in Calls : ValidateResume(c)
  \/ \E c \in Calls : PutResume(c)
  \/ \E c \in Calls : Wake(c)

SpecVersions == InitVersions /\ [][NextVersions]_vars

\* ------------------------------------------------------------- init, raced
\* Two DataContainer objects on one Azure container that nobody has used
\* yet, both declaring schema version 1, each with its own schema.  h1 is a
\* handle of the first, h2 of the second.
InitInit ==
  /\ blobs = [n \in Names |-> NoBlob]
  /\ nextETag = 1
  /\ history = <<>>
  /\ extWrites = 0
  /\ bucket = FALSE
  /\ container = [k \in Containers |->
                   CASE k = "c1" -> DataContainer(schemav1, 1, FALSE)
                     [] k = "c2" -> DataContainer(schemav2, 2, FALSE)
                     [] OTHER -> DataContainer(schemav1b, 1, FALSE)]
  /\ blob = [h \in Handles |->
              DataBlockBlob(IF h = "h1" THEN "c1" ELSE "c3", FALSE)]
  /\ call = [c \in Calls |-> NoCall(MaxOps)]

ContentsInit == {Doc(Absent, Absent), Doc(Num(10), Absent)}

NextInit ==
  \/ \E c \in Calls : StartInit(c, OwnHandle(c))
  \/ \E c \in Calls, x \in ContentsInit : StartCreate(c, OwnHandle(c), x)
  \/ \E c \in Calls : Serve(c)
  \/ \E c \in Calls : EnsureResume(c)
  \/ \E c \in Calls : CacheSchemaResume(c)
  \/ \E c \in Calls : SaveSchemaResume(c)
  \/ \E c \in Calls : PutResume(c)

SpecInit == InitInit /\ [][NextInit]_vars

\* ------------------------------------------------------------- init, again
\* Two DataContainer objects for schema version 1, one declaring schemav1
\* and one schemav1b, on an Azure container where an earlier client has
\* stored a schema for version 1, or nothing yet.
StoredSchemas == {schemav1b, schemav1, schemav1r}

InitIntegrity ==
  /\ \E present \in BOOLEAN, s \in StoredSchemas :
       /\ blobs = [n \in Names |->
                    IF n = _getSchemaName(1) /\ present
                    THEN StoredSchema(s, 1) ELSE NoBlob]
       /\ history = IF present THEN <<s>> ELSE <<>>
       /\ nextETag = IF present THEN 2 ELSE 1
       /\ bucket = present
  /\ extWrites = 0
  /\ container = [k \in Containers |->
                   CASE k = "c1" -> DataContainer(schemav1, 1, FALSE)
                     [] k = "c2" -> DataContainer(schemav2, 2, FALSE)
                     [] OTHER -> DataContainer(schemav1b, 1, FALSE)]
  /\ blob = [h \in Handles |->
              DataBlockBlob(IF h = "h1" THEN "c1" ELSE "c3", FALSE)]
  /\ call = [c \in Calls |-> NoCall(MaxOps)]

NextIntegrity ==
  \/ \E c \in Calls : StartInit(c, OwnHandle(c))
  \/ \E c \in Calls : Serve(c)
  \/ \E c \in Calls : EnsureResume(c)
  \/ \E c \in Calls : CacheSchemaResume(c)
  \/ \E c \in Calls : SaveSchemaResume(c)

SpecIntegrity == InitIntegrity /\ [][NextIntegrity]_vars

\* ------------------------------------------------------------- init, read-only
\* Two DataContainer objects for one Azure container declare schemav1 for
\* version 1: h1 is a handle of the first, which has the account key; h2
\* of the second, which has the account key as well, or a shared access
\* signature that grants no write.  The Azure container is there when
\* the signature was issued for it, and may hold the schema of version 1.
InitReadOnly ==
  /\ \E present, signature \in BOOLEAN :
       /\ blobs = [n \in Names |->
                    IF n = _getSchemaName(1) /\ present
                    THEN StoredSchema(schemav1, 1) ELSE NoBlob]
       /\ history = IF present THEN <<schemav1>> ELSE <<>>
       /\ nextETag = IF present THEN 2 ELSE 1
       /\ bucket = (present \/ signature)
       /\ container =
            [k \in Containers |->
               CASE k = "c1" -> DataContainer(schemav1, 1, FALSE)
                 [] k = "c2" -> DataContainer(schemav2, 2, FALSE)
                 [] OTHER -> [DataContainer(schemav1, 1, FALSE) EXCEPT
                                !.sas = signature, !.readOnly = signature]]
  /\ extWrites = 0
  /\ blob = [h \in Handles |->
              DataBlockBlob(IF h = "h1" THEN "c1" ELSE "c3", FALSE)]
  /\ call = [c \in Calls |-> NoCall(MaxOps)]

NextReadOnly ==
  \/ \E c \in Calls : StartInit(c, OwnHandle(c))
  \/ \E c \in Calls, x \in ContentsInit : StartCreate(c, OwnHandle(c), x)
  \/ \E c \in Calls : Serve(c)
  \/ \E c \in Calls : EnsureResume(c)
  \/ \E c \in Calls : CacheSchemaResume(c)
  \/ \E c \in Calls : SaveSchemaResume(c)
  \/ \E c \in Calls : PutResume(c)

SpecReadOnly == InitReadOnly /\ [][NextReadOnly]_vars

\* ------------------------------------------------------------- remove
\* The state after init() and createDataBlockBlob({cacheContent: true},
\* {value: 24}): h1 is the instance it returned, h2 a second instance for
\* the same name, just constructed.  Caller A works through h1: remove,
\* load, create.  Caller B is the other client of the name, through h2 or
\* by name: modify, create, container.remove.
InitRemove ==
  LET doc == Envelope(Doc(Num(24), Absent), 1) IN
  /\ blobs = [n \in Names |->
               CASE n = _getSchemaName(1) -> StoredSchema(schemav1, 1)
                 [] n = BlobName -> BlockBlob(2, doc, Some(doc.content))
                 [] OTHER -> NoBlob]
  /\ nextETag = 3
  /\ history = <<schemav1, doc>>
  /\ extWrites = 0
  /\ bucket = TRUE
  /\ container = [k \in Containers |->
                   CASE k = "c1" ->
                          Compiled(DataContainer(schemav1, 1, TRUE), 1)
                     [] k = "c2" -> DataContainer(schemav2, 2, FALSE)
                     [] OTHER -> DataContainer(schemav1b, 1, FALSE)]
  /\ blob = [h \in Handles |->
              IF h = "h1"
              THEN [DataBlockBlob("c1", TRUE) EXCEPT
                      !.eTag = Some(2), !.content = Some(doc.content)]
              ELSE DataBlockBlob("c1", TRUE)]
  /\ call = [c \in Calls |-> NoCall(MaxOps)]

NextRemove ==
  \/ \E ic, ii \in BOOLEAN : StartRemove("A", "h1", ic, ii)
  \/ StartRemove("B", "h2", FALSE, FALSE)
  \/ \E ii \in BOOLEAN : StartContainerRemove("B", "h2", ii)
  \/ \E c \in Calls : StartCreate(c, OwnHandle(c), Doc(Num(10), Absent))
  \/ StartLoad("A", "h1")
  \/ StartModify("B", "h2", "inc")
  \/ \E c \in Calls : Serve(c)
  \/ \E c \in Calls : LoadResume(c)
  \/ \E c \in Calls : PutResume(c)
  \/ \E c \in Calls : DeleteResume(c)
  \/ \E c \in Calls : Wake(c)

SpecRemove == InitRemove /\ [][NextRemove]_vars

\* ------------------------------------------------------------- append
\* The state after containerv1.init(), containerv2.init() and
\* createAppendDataBlob({name}): the log is there and empty.  h1 is an
\* AppendDataBlob of the version 1 container, h2 one of the version 2
\* container, for the same name.
InitAppend ==
  /\ blobs = [n \in Names |->
               CASE n = _getSchemaName(1) -> StoredSchema(schemav1, 1)
                 [] n = _getSchemaName(2) -> StoredSchema(schemav2, 2)
                 [] OTHER -> [BlockBlob(3, <<>>, <<>>) EXCEPT
                                !.type = "AppendBlob"]]
  /\ nextETag = 4
  /\ history = <<schemav1, schemav2, <<>> >>
  /\ extWrites = 0
  /\ bucket = TRUE
  /\ container = [k \in Containers |->
                   CASE k = "c1" -> DataContainer(schemav1, 1, TRUE)
                     [] k = "c2" -> DataContainer(schemav2, 2, TRUE)
                     [] OTHER -> DataContainer(schemav1b, 1, FALSE)]
  /\ blob = [h \in Handles |->
              AppendDataBlob(IF h = "h1" THEN "c1" ELSE "c2")]
  /\ call = [c \in Calls |-> NoCall(MaxOps)]

NextAppend ==
  \/ \E c \in Calls : StartAppendCreate(c, OwnHandle(c))
  \/ \E c \in Calls, x \in Contents : StartAppend(c, OwnHandle(c), x)
  \/ \E c \in Calls : StartAppendLoad(c, OwnHandle(c))
  \/ \E c \in Calls, x \in {undefined} \cup {Some(y) : y \in Contents} :
       StartCreateAppendDataBlob(c, OwnHandle(c), x)
  \/ \E c \in Calls : Serve(c)
  \/ \E c \in Calls : AppendResume(c)
  \/ \E c \in Calls : AppendCreateResume(c)
  \/ \E c \in Calls : AppendLoadResume(c)

SpecAppend == InitAppend /\ [][NextAppend]_vars

\* ------------------------------------------------------------- create, raced
\* One container, initialised, and two handles on one name, which holds no
\* document yet: create, with and without {ifNoneMatch: '*'}, and load.
InitCreate ==
  /\ blobs = [n \in Names |->
               IF n = _getSchemaName(1) THEN StoredSchema(schemav1, 1)
               ELSE NoBlob]
  /\ nextETag = 2
  /\ history = <<schemav1>>
  /\ extWrites = 0
  /\ bucket = TRUE
  /\ container = [k \in Containers |->
                   CASE k = "c1" -> DataContainer(schemav1, 1, TRUE)
                     [] k = "c2" -> DataContainer(schemav2, 2, FALSE)
                     [] OTHER -> DataContainer(schemav1b, 1, FALSE)]
  /\ \E cache \in [Handles -> BOOLEAN] :
       blob = [h \in Handles |-> DataBlockBlob("c1", cache[h])]
  /\ call = [c \in Calls |-> NoCall(MaxOps)]

ContentsCreate == {Doc(Num(10), Absent), Doc(Num(20), Absent)}

NextCreate ==
  \/ \E c \in Calls, x \in ContentsCreate : StartCreate(c, OwnHandle(c), x)
  \/ \E c \in Calls, x \in ContentsCreate :
       StartCreateIfNoneMatch(c, OwnHandle(c), x)
  \/ \E c \in Calls : StartLoad(c, OwnHandle(c))
  \/ \E c \in Calls : Serve(c)
  \/ \E c \in Calls : LoadResume(c)
  \/ \E c \in Calls : PutResume(c)

SpecCreate == InitCreate /\ [][NextCreate]_vars

\* ------------------------------------------------------------- scan, list
\* A container, initialised, that holds any of: two documents, a log, a
\* document with "schema" in its name, a page blob.  Caller A scans it,
\* caller B asks for a page of its listing, or loads a blob by its name.
PageBlob(eTag) == [BlockBlob(eTag, <<>>, undefined) EXCEPT !.type = "PageBlob"]

InitScan ==
  LET doc == Envelope(Doc(Num(1), Absent), 1) IN
  /\ \E present \in SUBSET (ListNames \ {_getSchemaName(1)}) :
       blobs = [n \in ListNames |->
                 CASE n = _getSchemaName(1) -> StoredSchema(schemav1, 1)
                   [] n \notin present -> NoBlob
                   [] n = _getSchemaName(2) -> StoredSchema(schemav2, 2)
                   [] n = LogName -> [BlockBlob(3, <<>>, <<>>) EXCEPT
                                        !.type = "AppendBlob"]
                   [] n = PageName -> PageBlob(4)
                   [] OTHER -> BlockBlob(Position(n) + 2, doc,
                                         Some(doc.content))]
  /\ nextETag = 9
  /\ history = <<schemav1, schemav2, <<>>, <<>>, doc, doc, doc, doc>>
  /\ extWrites = 0
  /\ bucket = TRUE
  /\ container = [k \in Containers |->
                   CASE k = "c1" -> DataContainer(schemav1, 1, TRUE)
                     [] k = "c2" -> DataContainer(schemav2, 2, FALSE)
                     [] OTHER -> DataContainer(schemav1b, 1, FALSE)]
  /\ blob = [h \in Handles |-> DataBlockBlob("c1", FALSE)]
  /\ call = [c \in Calls |-> NoCall(1)]

Limits == {undefined} \cup {Some(n) : n \in 1..MaxResults}
Prefixes == {undefined, Some(DocName)}
Continuations == {undefined, Some(BlobName)}
LoadNames == {BlobName, LogName, PageName}

NextScan ==
  \/ \E limit \in Limits : StartScan("A", "h1", undefined, limit)
  \/ \E prefix \in Prefixes, marker \in Continuations, limit \in Limits :
       StartListBlobs("B", "h2", prefix, marker, limit)
  \/ \E c \in Calls : ListResume(c)
  \/ \E name \in LoadNames, cacheContent \in BOOLEAN :
       StartContainerLoad("B", "h2", name, cacheContent)
  \/ \E c \in Calls : PropertiesResume(c)
  \/ \E c \in Calls : LoadResume(c)
  \/ \E c \in Calls : Serve(c)
  \/ \E c \in Calls : ScanResume(c)
  \/ \E c \in Calls, n \in ListNames : HandlerResolve(c, n)
  \/ \E c \in Calls, n \in ListNames : HandlerReject(c, n)

SpecScan == InitScan /\ [][NextScan]_vars

\* ------------------------------------------------------------- cache
\* One container, initialised.  h1 is a DataBlockBlob for a name that holds
\* nothing yet, constructed with or without cacheContent, and caller A
\* creates, loads and modifies through it; h2 is an AppendDataBlob for
\* the name of an empty log, constructed with or without cacheContent, and
\* caller B creates the log again, appends to it and loads it.
InitCache ==
  /\ blobs = [n \in ListNames |->
               CASE n = _getSchemaName(1) -> StoredSchema(schemav1, 1)
                 [] n = LogName -> [BlockBlob(2, <<>>, <<>>) EXCEPT
                                      !.type = "AppendBlob"]
                 [] OTHER -> NoBlob]
  /\ nextETag = 3
  /\ history = <<schemav1, <<>> >>
  /\ extWrites = 0
  /\ bucket = TRUE
  /\ container = [k \in Containers |->
                   CASE k = "c1" -> DataContainer(schemav1, 1, TRUE)
                     [] k = "c2" -> DataContainer(schemav2, 2, FALSE)
                     [] OTHER -> DataContainer(schemav1b, 1, FALSE)]
  /\ \E cache \in [Handles -> BOOLEAN] :
       blob = [h \in Handles |->
                IF h = "h1" THEN DataBlockBlob("c1", cache[h])
                ELSE AppendDataBlob_constructor("c1", LogName, cache[h])]
  /\ call = [c \in Calls |-> NoCall(MaxOps)]

NextCache ==
  \/ StartCreate("A", "h1", Doc(Num(10), Absent))
  \/ StartLoad("A", "h1")
  \/ StartModify("A", "h1", "inc")
  \/ StartAppendCreate("B", "h2")
  \/ StartAppend("B", "h2", Doc(Num(10), Absent))
  \/ StartAppendLoad("B", "h2")
  \/ \E c \in Calls : Serve(c)
  \/ \E c \in Calls : LoadResume(c)
  \/ \E c \in Calls : PutResume(c)
  \/ \E c \in Calls : AppendResume(c)
  \/ \E c \in Calls : AppendCreateResume(c)
  \/ \E c \in Calls : AppendLoadResume(c)

SpecCache == InitCache /\ [][NextCache]_vars

\* ------------------------------------------------------------- validators
\* One container object of version 2 and two instances of it for the same
\* document, which was written under version 1: every load needs the
\* validator of version 1, which the container has to fetch.  The schema
\* document of version 1 is there, or it has been deleted.
InitValidate ==
  LET doc == Envelope(Doc(Num(10), Absent), 1) IN
  /\ \E deleted \in BOOLEAN :
       blobs = [n \in Names |->
                 CASE n = _getSchemaName(1) ->
                        IF deleted THEN NoBlob
                        ELSE StoredSchema(schemav1, 1)
                   [] n = _getSchemaName(2) -> StoredSchema(schemav2, 2)
                   [] OTHER -> BlockBlob(3, doc, Some(doc.content))]
  /\ nextETag = 4
  /\ history = <<schemav1, schemav2, doc>>
  /\ extWrites = 0
  /\ bucket = TRUE
  /\ container = [k \in Containers |->
                   CASE k = "c1" -> DataContainer(schemav1, 1, FALSE)
                     [] k = "c2" -> DataContainer(schemav2, 2, TRUE)
                     [] OTHER -> DataContainer(schemav1b, 1, FALSE)]
  /\ \E cache \in [Handles -> BOOLEAN] :
       blob = [h \in Handles |-> DataBlockBlob("c2", cache[h])]
  /\ call = [c \in Calls |-> NoCall(MaxOps)]

NextValidate ==
  \/ \E c \in Calls : StartLoad(c, OwnHandle(c))
  \/ \E c \in Calls : StartCreate(c, OwnHandle(c), Doc(Num(20), Num(40)))
  \/ \E c \in Calls : Serve(c)
  \/ \E c \in Calls : LoadResume(c)
  \/ \E c \in Calls : ValidateResume(c)
  \/ \E c \in Calls : PutResume(c)

SpecValidate == InitValidate /\ [][NextValidate]_vars

\* ------------------------------------------------------------- backoff
\* The state of InitModify with a container whose updateRetries,
\* updateDelayFactor and updateMaxDelay are options of the caller.
MaxRetries == 4
DelayFactors == {1, 100}
MaxDelays == {5, 30 * 1000}
InitBackoff ==
  LET doc == Envelope(Doc(Num(24), Absent), 1) IN
  /\ blobs = [n \in Names |->
               CASE n = _getSchemaName(1) -> StoredSchema(schemav1, 1)
                 [] n = BlobName -> BlockBlob(2, doc, Some(doc.content))
                 [] OTHER -> NoBlob]
  /\ nextETag = 3
  /\ history = <<schemav1, doc>>
  /\ extWrites = 0
  /\ bucket = TRUE
  /\ \E retries \in 1..MaxRetries, factor \in DelayFactors,
        maxDelay \in MaxDelays :
       container = [k \in Containers |->
                     CASE k = "c1" ->
                            [Compiled(DataContainer(schemav1, 1, TRUE), 1)
                               EXCEPT !.updateRetries = retries,
                                      !.updateDelayFactor = factor,
                                      !.updateMaxDelay = maxDelay]
                       [] k = "c2" -> DataContainer(schemav2, 2, FALSE)
                       [] OTHER -> DataContainer(schemav1b, 1, FALSE)]
  /\ blob = [h \in Handles |-> DataBlockBlob("c1", h = "h1")]
  /\ call = [c \in Calls |-> NoCall(1)]

NextBackoff ==
  \/ \E m \in {"throwConflict", "inc"} : StartModify("A", "h1", m)
  \/ \E c \in Calls : Serve(c)
  \/ \E c \in Calls : LoadResume(c)
  \/ \E c \in Calls : PutResume(c)
  \/ \E c \in Calls : Wake(c)
  \/ ExternalWrite

SpecBackoff == InitBackoff /\ [][NextBackoff]_vars

\* ------------------------------------------------------------- append, remove
\* The state after container.init() and createAppendDataBlob({name}): the
\* log is there and empty, and h1 is the instance the call returned, with
\* the eTag of the creation.  Caller A is the only client of the log.
InitAppendRemove ==
  /\ blobs = [n \in ListNames |->
               CASE n = _getSchemaName(1) -> StoredSchema(schemav1, 1)
                 [] n = LogName -> [BlockBlob(2, <<>>, <<>>) EXCEPT
                                      !.type = "AppendBlob"]
                 [] OTHER -> NoBlob]
  /\ nextETag = 3
  /\ history = <<schemav1, <<>> >>
  /\ extWrites = 0
  /\ bucket = TRUE
  /\ container = [k \in Containers |->
                   CASE k = "c1" -> DataContainer(schemav1, 1, TRUE)
                     [] k = "c2" -> DataContainer(schemav2, 2, FALSE)
                     [] OTHER -> DataContainer(schemav1b, 1, FALSE)]
  /\ blob = [h \in Handles |->
              IF h = "h1"
              THEN [AppendDataBlob_constructor("c1", LogName, FALSE)
                      EXCEPT !.eTag = Some(2)]
              ELSE AppendDataBlob_constructor("c1", LogName, FALSE)]
  /\ call = [c \in Calls |-> NoCall(MaxOps + 1)]

NextAppendRemove ==
  \/ StartAppendCreate("A", "h1")
  \/ \E x \in Contents : StartAppend("A", "h1", x)
  \/ StartAppendLoad("A", "h1")
  \/ StartRemove("A", "h1", FALSE, FALSE)
  \/ \E c \in Calls : Serve(c)
  \/ \E c \in Calls : AppendResume(c)
  \/ \E c \in Calls : AppendCreateResume(c)
  \/ \E c \in Calls : AppendLoadResume(c)
  \/ \E c \in Calls : DeleteResume(c)

SpecAppendRemove == InitAppendRemove /\ [][NextAppendRemove]_vars

\* ------------------------------------------------------------- properties
Stored == blobs[BlobName].content
IsModify(c) == call[c].op = "modify"
Succeeded(c) == call[c].pc = "done" /\ call[c].status = "ok"
\* The store has accepted the write of call c.
PutAccepted(c) == call[c].pc = "putBlob" /\ call[c].resp.status = "ok"
IncApplied(c) ==
  /\ IsModify(c) /\ call[c].modifier = "inc"
  /\ (PutAccepted(c) \/ Succeeded(c))
BothIncrementedOn(h) ==
  \A c \in Calls :
    IsModify(c) /\ call[c].modifier = "inc" /\ call[c].h = h /\ Succeeded(c)
DistinctInstances ==
  \A c, d \in Calls :
    (c # d /\ IsModify(c) /\ IsModify(d)) => call[c].h # call[d].h

\* C1: two modify calls, each adding 10, raced on one instance that caches
\* content: once both have succeeded the stored content and the cached
\* content both show 24 + 10 + 10.
C1_ConcurrentModifySameInstance ==
  BothIncrementedOn("h1") =>
    /\ Stored.content.value = Num(24 + 10 * Cardinality(Calls))
    /\ blob["h1"].content = Some(Stored.content)

\* C2: modify calls on distinct instances of one name: every accepted write
\* is the modifier applied to the content stored under the token the write
\* was conditional on, and the stored value has grown by 10 for each
\* accepted increment.
C2_ModifyIsAtomic ==
  DistinctInstances =>
    /\ \A c \in Calls :
         (IsModify(c) /\ PutAccepted(c)) =>
           /\ call[c].req.ifMatch # undefined
           /\ call[c].req.content.content =
                Modified(call[c].modifier,
                         history[call[c].req.ifMatch[1]].content)
    /\ Stored.content.value =
         Num(24 + 10 * Cardinality({c \in Calls : IncApplied(c)}))

C2_Witness ==
  /\ DistinctInstances
  /\ \A c \in Calls : IncApplied(c) /\ Succeeded(c)
  /\ \E c \in Calls : call[c].conflicts > 0

\* C3: a modify call runs at most updateRetries load-modify-validate-write
\* cycles; when every cycle's write was answered with a conflict the call
\* has run exactly updateRetries cycles and failed with CongestionError.
C3_RetriesBounded ==
  \A c \in Calls :
    IsModify(c) =>
      /\ call[c].cycles <= container[blob[call[c].h].container].updateRetries
      /\ (call[c].pc = "done" /\ call[c].conflicts = call[c].cycles) =>
           /\ call[c].status = "CongestionError"
           /\ call[c].cycles =
                container[blob[call[c].h].container].updateRetries

C3_Witness ==
  \E c \in Calls :
    /\ IsModify(c) /\ call[c].pc = "done"
    /\ call[c].status = "CongestionError"
    /\ call[c].conflicts = UpdateRetries

\* C4: once the modifier has thrown, or the modified content has failed
\* validation, the call is over with that very error: no write in that
\* attempt, no retry, no CongestionError.
C4_AbortWithoutRetry ==
  \A c \in Calls :
    (IsModify(c) /\ call[c].thrown # "none") =>
      /\ call[c].pc = "done"
      /\ call[c].status = call[c].thrown
      /\ call[c].puts = call[c].conflicts

IsLoad(c) == call[c].op = "load"
IsCreate(c) == call[c].op = "create"
Done(c) == call[c].pc = "done"
ContainerOf(c) == container[blob[call[c].h].container]
\* The schema document the store holds for a version.
StoredSchemaOf(version) == blobs[_getSchemaName(version)].content
\* The content the handle of call c would be validated against at create.
TargetSchema(c) ==
  StoredSchemaOf(TargetVersion(blob[call[c].h], ContainerOf(c)))

IsInit(c) == call[c].op = "init"
IsSchema(body) == "id" \in DOMAIN body

\* C5: a schema document once stored for a version is never replaced by a
\* different one, and a container that has completed init declares the
\* schema that is stored for its version.
C5_SchemaWriteOnce ==
  /\ \A i, j \in DOMAIN history :
       (IsSchema(history[i]) /\ IsSchema(history[j])
          /\ history[i].id = history[j].id) => history[i] = history[j]
  /\ \A c \in Calls :
       (IsInit(c) /\ Done(c) /\ call[c].status = "ok"
          /\ Exists(_getSchemaName(ContainerOf(c).schemaVersion))) =>
         StoredSchemaOf(ContainerOf(c).schemaVersion) = ContainerOf(c).schema

\* C6: the stored document is an envelope whose content validates against
\* the schema document stored for the envelope's version.
C6_StoredEnvelopeValid ==
  Exists(BlobName) =>
    /\ DOMAIN Stored = {"content", "version"}
    /\ Exists(_getSchemaName(Stored.version))
    /\ ajvValidate(StoredSchemaOf(Stored.version), Stored.content)

\* C7: modify validates against the container's current version whatever
\* version was loaded: the call is accepted exactly when the modified
\* content conforms to the current schema, and the envelope it writes
\* carries the current version.
C7_ModifyValidatesCurrentVersion ==
  \A c \in Calls :
    /\ (IsModify(c) /\ Done(c) /\ call[c].read # undefined
          /\ call[c].status \in {"ok", "SchemaValidationError"}) =>
         (call[c].status = "ok" <=>
            ajvValidate(ContainerOf(c).schema,
                        Modified(call[c].modifier,
                                 call[c].read[1].content.content)))
    /\ (IsModify(c) /\ PutAccepted(c)) =>
         call[c].req.content.version = ContainerOf(c).schemaVersion

\* C8: load validates against the schema of the version in the stored
\* envelope: whatever the current version of the handle's container, a load
\* that found the document succeeds and returns the envelope's content.
C8_LoadValidatesStoredVersion ==
  \A c \in Calls :
    (IsLoad(c) /\ Done(c) /\ call[c].read # undefined) =>
      /\ call[c].status = "ok"
      /\ call[c].result = Some(call[c].read[1].content.content)

\* a version 1 document, not valid under schema 2, loaded through the
\* version 2 container
C8_Witness ==
  \E c \in Calls :
    /\ IsLoad(c) /\ Done(c) /\ call[c].status = "ok"
    /\ ContainerOf(c).schemaVersion = 2
    /\ call[c].read # undefined
    /\ call[c].read[1].content.version = 1
    /\ ~ajvValidate(schemav2, call[c].result[1])

IsConditional(c) == IsCreate(c) /\ call[c].options = "ifNoneMatch"

\* C11: a create with {ifNoneMatch: '*'} that found a document under the
\* name fails with BlobAlreadyExists (so its write is not accepted), and of
\* the conditional creates raced for a name that held nothing at most one
\* succeeds.
C11_ConditionalCreate ==
  /\ \A c \in Calls :
       (IsConditional(c) /\ Done(c) /\ call[c].existed) =>
         call[c].status = "BlobAlreadyExists"
  /\ \A c, d \in Calls :
       (c # d /\ IsConditional(c) /\ IsConditional(d)
          /\ Succeeded(c) /\ Succeeded(d)) =>
         (call[c].existed \/ call[d].existed)

\* The write of create call c is what the store holds now.
CreatedByIsStored(c) ==
  /\ Exists(BlobName)
  /\ blob[call[c].h].eTag = Some(blobs[BlobName].eTag)

\* C12: create without a condition on a name that holds a document
\* succeeds and replaces it: until the next write the store holds the new
\* content, and a load that finds this document returns the new content.
C12_CreateOverwrites ==
  \A c \in Calls :
    (IsCreate(c) /\ ~IsConditional(c) /\ Done(c) /\ call[c].existed) =>
      /\ call[c].status = "ok"
      /\ CreatedByIsStored(c) => Stored.content = call[c].arg[1]
      /\ \A d \in Calls :
           (IsLoad(d) /\ Done(d) /\ call[d].read # undefined
              /\ blob[call[c].h].eTag = Some(call[d].read[1].eTag)) =>
             call[d].result = call[c].arg

\* a document created with one content, created again with another on the
\* other handle, and then loaded through the first handle
C12_Witness ==
  \E c, d \in Calls :
    /\ IsCreate(c) /\ ~IsConditional(c) /\ Succeeded(c)
    /\ call[c].existed
    /\ Len(history) = 3
    /\ history[2].content # history[3].content
    /\ history[3].content = call[c].arg[1]
    /\ IsLoad(d) /\ Succeeded(d) /\ call[d].read # undefined
    /\ blob[call[c].h].eTag = Some(call[d].read[1].eTag)
    /\ call[d].result = call[c].arg

\* C13: the step in which a modify call on an instance with caching on
\* returns successfully leaves the instance caching the content that call
\* wrote and holding the token the store returned for that write.
C13_ModifyCachesWritten ==
  [][\A c \in Calls :
       (IsModify(c) /\ PutAccepted(c) /\ blob[call[c].h].cacheContent
          /\ call'[c].pc = "done") =>
         /\ call'[c].status = "ok"
         /\ blob'[call[c].h].content = Some(call[c].req.content.content)
         /\ blob'[call[c].h].eTag = Some(call[c].resp.eTag)]_vars

\* a modify that has returned: the instance caches the incremented content,
\* which is what the store holds under the instance's token
C13_Witness ==
  \E c \in Calls :
    /\ IsModify(c) /\ Succeeded(c) /\ call[c].modifier = "inc"
    /\ blob[call[c].h].cacheContent
    /\ blob[call[c].h].content # call[c].thisBefore.content
    /\ blob[call[c].h].content = Some(Stored.content)
    /\ blob[call[c].h].eTag = Some(blobs[BlobName].eTag)

\* The token of the handle was current when call c started, and nothing
\* has been written under the name since.
NoOtherWriter(c) ==
  /\ call[c].before # NoBlob
  /\ call[c].thisBefore.eTag = Some(call[c].before.eTag)
  /\ blobs[BlobName] = call[c].before

SameContent(s, t) == [s EXCEPT !.keys = "declared"] = [t EXCEPT !.keys = "declared"]

\* C15: an init call that found a schema document stored for the current
\* version fails with the integrity error when the document's content
\* differs from the schema of the container, and succeeds without a write
\* when the content is the same.
C15_IntegrityCheck ==
  \A c \in Calls :
    (IsInit(c) /\ Done(c) /\ call[c].read # undefined) =>
      IF SameContent(call[c].read[1].content, ContainerOf(c).schema)
      THEN call[c].status = "ok" /\ call[c].puts = 0
      ELSE call[c].status = "SchemaIntegrityCheckError"

IsRemove(c) == call[c].op = "remove"
IsContainerRemove(c) == call[c].op = "container.remove"
\* The instance held a token when call c started, and it was not the token
\* of the blob the store found.
StaleToken(c) ==
  /\ call[c].thisBefore.eTag # undefined
  /\ call[c].thisBefore.eTag # Some(call[c].read[1].eTag)

\* C16: a remove that found the blob: with ignoreChanges it deletes the
\* blob; without it, on an instance whose token is stale, it fails with
\* ConditionNotMet and has deleted nothing.
C16_RemoveDetectsChange ==
  \A c \in Calls :
    (IsRemove(c) /\ Done(c) /\ call[c].read # undefined) =>
      IF call[c].ignoreChanges
      THEN call[c].status = "ok" /\ blob[call[c].h].removed
      ELSE StaleToken(c) =>
             /\ call[c].status = "ConditionNotMet"
             /\ blob[call[c].h].removed = call[c].thisBefore.removed

\* the second instance has modified the blob, the first one's remove(false)
\* has failed and the blob is still stored
C16_Witness ==
  \E c, d \in Calls :
    /\ IsRemove(c) /\ Done(c) /\ ~call[c].ignoreChanges
    /\ call[c].status = "ConditionNotMet"
    /\ IsModify(d) /\ Succeeded(d)
    /\ Exists(BlobName) /\ Stored.content.value = Num(34)

\* C17: a remove, by instance or by name, that found no blob completes
\* without error when ignoreIfNotExists is set and fails with BlobNotFound
\* when it is not.
C17_RemoveMissing ==
  \A c \in Calls :
    ((IsRemove(c) \/ IsContainerRemove(c)) /\ Done(c)
       /\ call[c].read = undefined) =>
      call[c].status =
        IF call[c].ignoreIfNotExists THEN "ok" ELSE "BlobNotFound"

\* nothing is stored; a remove by instance with ignoreIfNotExists has
\* completed and a remove by name without it has failed
C17_Witness ==
  \E c, d \in Calls :
    /\ IsRemove(c) /\ Done(c) /\ call[c].read = undefined
    /\ call[c].ignoreIfNotExists /\ call[c].status = "ok"
    /\ IsContainerRemove(d) /\ Done(d) /\ call[d].read = undefined
    /\ ~call[d].ignoreIfNotExists /\ call[d].status = "BlobNotFound"
    /\ ~Exists(BlobName)

\* C18: on an instance whose remove has deleted the blob, every later
\* load, modify and default remove fails with BlobNotFound and no later
\* create succeeds: the instance gets no token again.
C18_RemovedIsTerminal ==
  \A c \in Calls :
    (Done(c) /\ call[c].wasRemoved) =>
      /\ (IsLoad(c) \/ IsModify(c)
            \/ (IsRemove(c) /\ ~call[c].ignoreIfNotExists)) =>
           call[c].status = "BlobNotFound"
      /\ IsCreate(c) => call[c].status # "ok"

IsAppend(c) == call[c].op = "append"
IsAppendLoad(c) == call[c].op = "append.load"
\* C19: a load of an append log returns the texts of the fragments given
\* to the append calls the log has taken since it was created, in the
\* order the store took them, one item for each fragment and nothing
\* between them.
C19_AppendRoundTrip ==
  \A c \in Calls :
    (IsAppendLoad(c) /\ Done(c) /\ call[c].read # undefined) =>
      /\ call[c].status = "ok"
      /\ call[c].result = Some(call[c].read[1].created)

\* a fragment appended through the version 1 container, one through the
\* version 2 container, and both loaded, in that order
C19_Witness ==
  \E c \in Calls :
    /\ IsAppendLoad(c) /\ Succeeded(c)
    /\ call[c].result =
         Some(<<Doc(Num(10), Absent), Doc(Num(20), Num(40))>>)

\* C20: an append whose content violates the schema of the container's
\* current version fails with SchemaValidationError carrying the content
\* and has sent nothing to the store; content that conforms is not
\* rejected.
C20_AppendValidates ==
  \A c \in Calls :
    (IsAppend(c) /\ Done(c)) =>
      IF ajvValidate(ContainerOf(c).schema, call[c].arg[1])
      THEN call[c].status = "ok"
      ELSE /\ call[c].status = "SchemaValidationError"
           /\ call[c].errorContent = call[c].arg
           /\ call[c].puts = 0

\* content valid under schema 1 only, rejected through the version 2
\* container: the log is as it was when the call started
C20_Witness ==
  \E c \in Calls :
    /\ IsAppend(c) /\ Done(c) /\ call[c].status = "SchemaValidationError"
    /\ ContainerOf(c).schemaVersion = 2
    /\ call[c].arg = Some(Doc(Num(10), Absent))
    /\ call[c].before.content # <<>>
    /\ blobs[BlobName] = call[c].before

IsPrefix(s, t) == Len(s) <= Len(t) /\ SubSeq(t, 1, Len(s)) = s

\* C21: an append log only grows: of two loads that have returned, the one
\* that read the earlier state of the log returned a prefix of what the one
\* that read the later state returned.
C21_LogOnlyGrows ==
  \A c, d \in Calls :
    (IsAppendLoad(c) /\ Succeeded(c) /\ IsAppendLoad(d) /\ Succeeded(d)
       /\ call[c].read[1].eTag <= call[d].read[1].eTag) =>
      IsPrefix(call[c].result[1], call[d].result[1])

IsCreateAppendLog(c) == call[c].op = "createAppendDataBlob"

\* C22: createAppendDataBlob without content succeeds and leaves the log
\* empty until something is appended; with content that conforms to the
\* schema of the container it succeeds, having sent the create and the
\* append, and a load of the log that has taken just that append returns
\* the serialisation of the content.
C22_CreateAppendLog ==
  \A c \in Calls :
    (IsCreateAppendLog(c) /\ Done(c)) =>
      IF call[c].arg = undefined
      THEN /\ call[c].status = "ok"
           /\ CreatedByIsStored(c) => Stored = <<>>
      ELSE ajvValidate(ContainerOf(c).schema, call[c].arg[1]) =>
             /\ call[c].status = "ok"
             /\ call[c].puts = 2
             /\ \A d \in Calls :
                  (IsAppendLoad(d) /\ Succeeded(d)
                     /\ call[d].read[1].created = call[c].arg) =>
                    call[d].result =
                      Some(AppendDataBlob_serialize(call[c].arg[1]))

IsScan(c) == call[c].op = "scan"
\* The name is that of the schema document of some version.
IsSchemaEntry(name) == \E v \in SchemaVersions : name = _getSchemaName(v)
Count(seq, x) == Cardinality({i \in DOMAIN seq : seq[i] = x})
Range(seq) == {seq[i] : i \in DOMAIN seq}

\* C23: when a scan has returned, the handler has been called once for
\* every block blob entry of the pages it was given that is not a schema
\* document, for no other entry, and every call of the handler has
\* completed.
C23_ScanHandlesEachDocumentOnce ==
  \A c \in Calls :
    (IsScan(c) /\ Succeeded(c)) =>
      /\ \A i \in DOMAIN call[c].scan.listed :
           LET e == call[c].scan.listed[i] IN
           Count(call[c].scan.invoked, e.name) =
             IF e.type = "BlockBlob" /\ ~IsSchemaEntry(e.name) THEN 1 ELSE 0
      /\ Range(call[c].scan.invoked) \subseteq
           {call[c].scan.listed[i].name : i \in DOMAIN call[c].scan.listed}
      /\ call[c].scan.inflight = {}
      /\ call[c].scan.completed = Range(call[c].scan.invoked)

ScanFailed(c) == IsScan(c) /\ Done(c) /\ call[c].status # "ok"

\* C24: once a handler has rejected the scan is over with the error of a
\* handler that rejected; from then on it asks for no page and calls no
\* handler; and every document whose handler has completed holds what the
\* handler wrote.
C24_ScanAbortsOnHandlerError ==
  /\ [](\A c \in Calls :
          IsScan(c) =>
            /\ call[c].scan.rejected # {} =>
                 /\ Done(c) /\ call[c].status = "scan error"
                 /\ call[c].errorContent # undefined
                 /\ call[c].errorContent[1] \in call[c].scan.rejected
            /\ \A n \in call[c].scan.completed :
                 blobs[n].content.content.value = Num(11))
  /\ [][\A c \in Calls :
          ScanFailed(c) =>
            /\ call'[c].scan.pages = call[c].scan.pages
            /\ call'[c].scan.invoked = call[c].scan.invoked
            /\ call'[c].req = NoReq]_vars

\* the scan has failed on its second page, of two documents, one handler
\* having completed before the other rejected, with more pages to come
C24_Witness ==
  \E c \in Calls :
    /\ ScanFailed(c)
    /\ call[c].scan.completed = {BlobName}
    /\ call[c].scan.rejected = {DocName}
    /\ call[c].scan.nextMarker # undefined
    /\ call[c].scan.pages = 2
    /\ blobs[BlobName].content.content.value = Num(11)
    /\ blobs[DocName].content.content.value = Num(1)

IsListBlobs(c) == call[c].op = "listBlobs"
\* The entries of a page that are documents or logs of the user.
UserBlobs(entries) ==
  SelectSeq(entries,
            LAMBDA e : /\ e.type \in {"BlockBlob", "AppendBlob"}
                       /\ ~IsSchemaEntry(e.name))

\* C25: the blobs listBlobs returns for a page are the handles of the
\* documents and logs of that page, in the order of the page, each of the
\* type of its blob: nothing stands in the result for a schema document or
\* a page blob, and no document or log of the user is missing.
C25_ListBlobsUserBlobsOnly ==
  \A c \in Calls :
    (IsListBlobs(c) /\ Succeeded(c)) =>
      call[c].result[1].blobs =
        [i \in DOMAIN UserBlobs(call[c].scan.listed) |->
           [type |-> UserBlobs(call[c].scan.listed)[i].type,
            name |-> UserBlobs(call[c].scan.listed)[i].name]]

\* The store has answered the schema write of init call c.
SchemaWriteAnswered(c) ==
  IsInit(c) /\ call[c].pc = "putSchema" /\ call[c].resp # NoResp

C28_RemoveReturnsWhetherDeleted ==
  \A c \in Calls :
    ((IsRemove(c) \/ IsContainerRemove(c)) /\ Succeeded(c)) =>
      call[c].result = Some(call[c].read # undefined)

IsContainerLoad(c) == call[c].op = "container.load"

\* C29: a container.load that has returned.  The name held nothing:
\* BlobNotFound.  A block blob, which the load then read: an instance of
\* DataBlockBlob that holds the token of what was read, and its content
\* exactly when cacheContent was asked for.  An append blob: an instance
\* of AppendDataBlob that has been loaded, so holds a token.  Any other
\* type: null.
C29_LoadByName ==
  \A c \in Calls :
    (IsContainerLoad(c) /\ Done(c)) =>
      LET b == blob[call[c].h]
          found == call[c].before
      IN CASE found = NoBlob -> call[c].status = "BlobNotFound"
           [] found.type = "BlockBlob" ->
                call[c].read # undefined =>
                  /\ call[c].status = "ok"
                  /\ call[c].result = Some("BlockBlob")
                  /\ b.type = "BlockBlob"
                  /\ b.name = call[c].arg[1].name
                  /\ b.eTag = Some(call[c].read[1].eTag)
                  /\ b.content =
                       IF call[c].arg[1].cacheContent
                       THEN Some(call[c].read[1].content.content)
                       ELSE undefined
           [] found.type = "AppendBlob" ->
                /\ call[c].status = "ok"
                /\ call[c].result = Some("AppendBlob")
                /\ b.type = "AppendBlob"
                /\ b.name = call[c].arg[1].name
                /\ b.eTag # undefined
           [] OTHER ->
                call[c].status = "ok" /\ call[c].result = Some("null")

\* C30: an instance constructed without cacheContent holds no content, and
\* an AppendDataBlob holds none whatever it was constructed with.
C30_NoContentUnlessAsked ==
  \A h \in Handles :
    /\ ~blob[h].cacheContent => blob[h].content = undefined
    /\ blob[h].type = "AppendBlob" => blob[h].content = undefined

\* the document has been created and then modified through an instance
\* without cacheContent, the log has been appended to and loaded, and
\* neither instance holds content
C30_Witness ==
  /\ ~blob["h1"].cacheContent
  /\ IsModify("A") /\ Succeeded("A")
  /\ blob["h1"].eTag = Some(blobs[BlobName].eTag)
  /\ blob["h1"].content = undefined
  /\ IsAppendLoad("B") /\ Succeeded("B")
  /\ call["B"].result = Some(<<Doc(Num(10), Absent)>>)
  /\ blob["h2"].content = undefined

\* The read of a load carries the instance's eTag when the instance caches
\* content, and no condition otherwise.
LoadReadIsConditional ==
  \A c \in Calls :
    (IsLoad(c) /\ call[c].pc = "getBlob") =>
      /\ call[c].req.kind = "getBlob"
      /\ call[c].req.name = blob[call[c].h].name
      /\ call[c].req.ifNoneMatch =
           IF blob[call[c].h].cacheContent THEN blob[call[c].h].eTag
           ELSE undefined

\* What load does with the answer "not modified".
NotModifiedStep ==
  \A c \in Calls :
    (/\ IsLoad(c) /\ call[c].pc = "getBlob"
     /\ call[c].resp.status = "NotModified"
     /\ call'[c] # call[c]) =>
      /\ call'[c].pc = "done" /\ call'[c].status = "ok"
      /\ call'[c].result = blob[call[c].h].content
      /\ call'[c].req = NoReq
      /\ blob' = blob
      /\ container' = container
      /\ store' = store

\* C31: a load through an instance that caches content reads under the
\* condition that the eTag differs from the instance's; answered "not
\* modified" it returns the cached content, validates nothing, fetches no
\* schema, and leaves the eTag, the version and the cached content alone.
C31_NotModifiedReturnsCache ==
  []LoadReadIsConditional /\ [][NotModifiedStep]_vars

\* a document created through a caching instance and then loaded through
\* it: the version, which only a downloaded envelope sets, is still unset
C31_Witness ==
  /\ blob["h1"].cacheContent
  /\ IsLoad("A") /\ Succeeded("A")
  /\ call["A"].result = Some(Doc(Num(10), Absent))
  /\ blob["h1"].content = call["A"].result
  /\ blob["h1"].eTag = Some(blobs[BlobName].eTag)
  /\ blob["h1"].version = undefined

\* Call c resumes validate with the schema it fetched, and compiles it.
CompilesFetched(c) ==
  /\ call[c].pc = "validate"
  /\ call[c].resp.status = "ok"
  /\ call'[c] # call[c]

\* C32: a container compiles the schema of a version at most once: a
\* validate call that compiles a schema finds no validator of that version
\* in the container, whether the calls follow each other or overlap.
C32_CompiledAtMostOnce ==
  [][\A c \in Calls :
       CompilesFetched(c) =>
         ContainerOf(c)._validateFunctionMap[call[c].schemaVersion]
           = undefined]_vars

\* C33: a scan with options.limit has at no time more handler calls in
\* flight than the limit.
C33_HandlersWithinLimit ==
  \A c \in Calls :
    (IsScan(c) /\ call[c].scan.limit # undefined) =>
      Cardinality(call[c].scan.inflight) <= call[c].scan.limit[1]

\* a scan with limit 2 is waiting for the two handlers of its second page,
\* and a page is still to come
C33_Witness ==
  \E c \in Calls :
    /\ IsScan(c) /\ call[c].pc = "handlers"
    /\ call[c].scan.limit = Some(2)
    /\ call[c].scan.pages = 2
    /\ call[c].scan.inflight = {BlobName, DocName}
    /\ call[c].scan.nextMarker # undefined

\* The attempts call c has used so far.
AttemptsUsed(c) == call[c].cycles

\* While modify sleeps after its k-th failed attempt, the delay is
\* min(2^k * delayFactor, maxDelay).
DelayDoubles ==
  \A c \in Calls :
    (IsModify(c) /\ call[c].pc = "sleep") =>
      call[c].delay = Min((2 ^ AttemptsUsed(c))
                            * ContainerOf(c).updateDelayFactor,
                          ContainerOf(c).updateMaxDelay)

\* The delay of a retry is not below the delay of the retry before it.
DelayGrows ==
  \A c \in Calls :
    (/\ IsModify(c) /\ call[c].delay > 0
     /\ call[c].pc # "sleep" /\ call'[c].pc = "sleep") =>
      call'[c].delay >= call[c].delay

\* C34: with the jitter at 1, modify sleeps min(2^k * delayFactor,
\* maxDelay) before the retry that follows its k-th failed attempt, so the
\* delays of one call do not decrease and none exceeds maxDelay.
C34_BackoffDoubles ==
  /\ []DelayDoubles
  /\ [][DelayGrows]_vars
  /\ [](\A c \in Calls : call[c].delay <= ContainerOf(c).updateMaxDelay)

\* The load of call c has ended, the envelope it read names a version
\* that is not the container's and whose schema document is not stored.
LoadedUnknownVersion(c) ==
  /\ IsLoad(c) /\ Done(c) /\ call[c].read # undefined
  /\ call[c].read[1].content.version # ContainerOf(c).schemaVersion
  /\ ~Exists(_getSchemaName(call[c].read[1].content.version))

\* C35: a load of a document whose envelope names a version that is not
\* the current one and has no schema document in the store fails with
\* SchemaLoadError, the container has no validator for that version, and
\* the instance has not cached the content of the document.
C35_MissingSchemaFailsLoad ==
  \A c \in Calls :
    LoadedUnknownVersion(c) =>
      /\ call[c].status = "SchemaLoadError"
      /\ ContainerOf(c)._validateFunctionMap[
            call[c].read[1].content.version] = undefined
      /\ blob[call[c].h].content = undefined

\* C36: an instance that caches content and holds both an eTag and content
\* holds the content the store had when it issued that eTag.
C36_CacheCoherent ==
  \A h \in Handles :
    (/\ blob[h].type = "BlockBlob" /\ blob[h].cacheContent
     /\ blob[h].eTag # undefined /\ blob[h].content # undefined) =>
      blob[h].content[1] = history[blob[h].eTag[1]].content

\* No other call has used the instance of call c.
Exclusive(c) ==
  \A d \in Calls \ {c} : call[d].op = "none" \/ call[d].h # call[c].h

\* The writes other than its own that the blob of call c has taken since
\* the call started: the store issues one eTag for each write.
ForeignWrites(c) ==
  blobs[blob[call[c].h].name].eTag - call[c].before.eTag
    - (IF PutAccepted(c) \/ Succeeded(c) THEN 1 ELSE 0)

\* C37: for a modify through an instance no other call uses, a write is
\* answered with a conflict only when the blob was written after the load
\* of that attempt; without a foreign write during the call it succeeds at
\* its first attempt; and it ends in CongestionError only when at least
\* updateRetries foreign writes happened during the call.
C37_NoSpuriousConflict ==
  \A c \in Calls :
    (IsModify(c) /\ Exclusive(c)) =>
      /\ (call[c].pc = "putBlob" /\ call[c].resp.status = "ConditionNotMet")
            => /\ call[c].read # undefined
               /\ blobs[blob[call[c].h].name].eTag > call[c].read[1].eTag
      /\ (Succeeded(c) /\ ForeignWrites(c) = 0) => call[c].cycles = 1
      /\ (Done(c) /\ call[c].status = "CongestionError")
            => ForeignWrites(c) >= ContainerOf(c).updateRetries

\* C38: a load that has failed leaves the eTag, the version and the cached
\* content of the instance as they were when it was called.
C38_FailedLoadChangesNothing ==
  \A c \in Calls :
    (IsLoad(c) /\ Done(c) /\ call[c].status # "ok" /\ Exclusive(c)) =>
      /\ blob[call[c].h].eTag = call[c].thisBefore.eTag
      /\ blob[call[c].h].version = call[c].thisBefore.version
      /\ blob[call[c].h].content = call[c].thisBefore.content

\* C39: a remove without ignoreChanges deletes the blob only when the blob
\* has the eTag the instance holds, got from its own create, load or
\* modify; an instance without an eTag deletes nothing that way.
C39_ConditionalRemoveNeedsToken ==
  \A c \in Calls :
    (/\ IsRemove(c) /\ ~call[c].ignoreChanges
     /\ call[c].pc = "deleteBlob" /\ call[c].resp.status = "ok") =>
      /\ call[c].thisBefore.eTag # undefined
      /\ call[c].thisBefore.eTag = Some(call[c].resp.read.eTag)

\* C40: remove() with its default arguments on the AppendDataBlob that
\* created the log succeeds after any number of its own appends, with or
\* without a load between them, when nothing else has written the log.
C40_AppendHandleRemoves ==
  \A c \in Calls :
    (/\ IsRemove(c) /\ Done(c)
     /\ blob[call[c].h].type = "AppendBlob"
     /\ ~call[c].ignoreChanges /\ ~call[c].ignoreIfNotExists
     /\ ~call[c].wasRemoved) =>
      call[c].status = "ok"

====
